---- MODULE Spec2Model ----
(***************************************************************************)
(* Billing and reading-consistency engine of ElectricTariffsApp            *)
(* (core/actions.py): tiered pricing, rollover detection and the cascade   *)
(* recalculation ("efecto domino").                                        *)
(*                                                                         *)
(* Numbers are fixed point.  Meter values and consumptions are counted in  *)
(* units of 0.005 kWh (100 kWh = 20000), prices in units of 0.05 CUP per   *)
(* kWh (0.40 CUP = 8), amounts in units of 0.00025 CUP (the product of the *)
(* two).  The 0.01 tolerances of the cascade are 2 units of consumption    *)
(* and 40 units of amount.  Python list indices are kept 0-based: At(s, i) *)
(* is s[i].                                                                *)
(***************************************************************************)
EXTENDS Integers, Sequences, FiniteSets, TLC

VARIABLES
    lecturas,      \* the list of Lectura objects handed to the cascade, or
                   \* the rows of table lecturas in rowid order
    tarifas,       \* the tariff list handed to the cascade, or table tarifas
    previas,       \* the list as it was when the last call started
    desde_indice,  \* desde_indice of the last call
    modificadas,   \* list returned by the last call (indices into lecturas)
    fase,          \* "inicio" | "recalculada" | "repetida" | "retornada"
    reloj,         \* datetime.now()
    llamada,       \* arguments of the last call
    retorno,       \* what that call returned or raised
    usuario_actual,     \* AppState._usuario_actual
    intentos_fallidos,  \* AuthViewModel._intentos_fallidos
    bloqueos,           \* AuthViewModel._bloqueos
    fallos_seguidos,    \* history: per username, the invalid-credential
                        \* attempts in a row and the time of the third
    en_curso            \* the _aplicar_efecto_domino call that has loaded its
                        \* readings and not yet persisted them

vars == <<lecturas, tarifas, previas, desde_indice, modificadas, fase, reloj,
          llamada, retorno, usuario_actual, intentos_fallidos, bloqueos,
          fallos_seguidos, en_curso>>

\* the application state around the core
aplicacion == <<usuario_actual, intentos_fallidos, bloqueos, fallos_seguidos,
                en_curso>>

----------------------------------------------------------------------------
(* Program constants *)

\* MAX_MEDIDOR = 99999.9 kWh
MAX_MEDIDOR == 19999980

\* UMBRAL_ROLLOVER = 0.95, as a percentage
UMBRAL_ROLLOVER == 95

\* abs(lectura.consumo_kwh - nuevo_consumo) > 0.01
TOLERANCIA_CONSUMO == 2

\* abs(lectura.importe_total - nuevo_importe) > 0.01
TOLERANCIA_IMPORTE == 40

\* Optional[...] = None
None == -1

Abs(x) == IF x < 0 THEN -x ELSE x

At(s, i) == s[i + 1]

\* Optional[Usuario] = None
UsuarioNone == [id |-> None]

\* Dict[str, ...] = {}
DictVacio == [k \in {} |-> None]

\* no _aplicar_efecto_domino call is between its load and its persist
NingunaTarea == [medidor_id |-> None]

\* the application as constructed: no session, no failed attempt, no lock
SinAplicacion ==
    /\ usuario_actual = UsuarioNone
    /\ intentos_fallidos = DictVacio
    /\ bloqueos = DictVacio
    /\ fallos_seguidos = DictVacio
    /\ en_curso = NingunaTarea

----------------------------------------------------------------------------
(* Algorithm 1: tiered amount *)

\* sorted(tarifas, key=lambda t: t.limite_min): stable
RECURSIVE Insertar(_, _)
Insertar(t, ordenadas) ==
    IF ordenadas = <<>> THEN <<t>>
    ELSE IF t.limite_min < Head(ordenadas).limite_min
         THEN <<t>> \o ordenadas
         ELSE <<Head(ordenadas)>> \o Insertar(t, Tail(ordenadas))

RECURSIVE OrdenarDesde(_, _)
OrdenarDesde(ts, ordenadas) ==
    IF ts = <<>> THEN ordenadas
    ELSE OrdenarDesde(Tail(ts), Insertar(Head(ts), ordenadas))

Sorted(ts) == OrdenarDesde(ts, <<>>)

\* RecorrerTramos that bills a tier and forgets what earlier tiers added
RECURSIVE RecorrerTramos_olvida_total(_, _, _)
RecorrerTramos_olvida_total(ts, restante, total) ==
    IF ts = <<>> \/ restante <= 0 THEN total
    ELSE LET tarifa == Head(ts) IN
         IF tarifa.limite_max = None
         THEN restante * tarifa.precio_kwh
         ELSE LET rango == tarifa.limite_max - tarifa.limite_min IN
              IF restante > rango
              THEN RecorrerTramos_olvida_total(Tail(ts), restante - rango,
                                  total + rango * tarifa.precio_kwh)
              ELSE restante * tarifa.precio_kwh

\* the for loop of calcular_importe over tarifas_ordenadas
RECURSIVE RecorrerTramos(_, _, _)
RecorrerTramos(ts, restante, total) ==
    IF ts = <<>> \/ restante <= 0 THEN total
    ELSE LET tarifa == Head(ts) IN
         IF tarifa.limite_max = None
         THEN total + restante * tarifa.precio_kwh
         ELSE LET rango == tarifa.limite_max - tarifa.limite_min IN
              IF restante > rango
              THEN RecorrerTramos(Tail(ts), restante - rango,
                                  total + rango * tarifa.precio_kwh)
              ELSE total + restante * tarifa.precio_kwh

\* calcular_importe that bills a full tier without taking it off the rest
RECURSIVE RecorrerTramos_sin_descontar(_, _, _)
RecorrerTramos_sin_descontar(ts, restante, total) ==
    IF ts = <<>> \/ restante <= 0 THEN total
    ELSE LET tarifa == Head(ts) IN
         IF tarifa.limite_max = None
         THEN total + restante * tarifa.precio_kwh
         ELSE LET rango == tarifa.limite_max - tarifa.limite_min IN
              IF restante > rango
              THEN RecorrerTramos_sin_descontar(Tail(ts), restante,
                                  total + rango * tarifa.precio_kwh)
              ELSE total + restante * tarifa.precio_kwh

calcular_importe_sin_descontar(consumo_total, ts) ==
    IF consumo_total <= 0 THEN 0
    ELSE IF ts = <<>> THEN 0
    ELSE RecorrerTramos_sin_descontar(Sorted(ts), consumo_total, 0)

\* calcular_importe that walks the tiers in the order given
calcular_importe_sin_ordenar(consumo_total, ts) ==
    IF consumo_total <= 0 THEN 0
    ELSE IF ts = <<>> THEN 0
    ELSE RecorrerTramos(ts, consumo_total, 0)

calcular_importe(consumo_total, ts) ==
    IF consumo_total <= 0 THEN 0
    ELSE IF ts = <<>> THEN 0
    ELSE RecorrerTramos(Sorted(ts), consumo_total, 0)

Min(a, b) == IF a < b THEN a ELSE b

\* one entry of the list desglosar_consumo_por_tramos returns
EntradaDesglose(tarifa, consumo_tramo) ==
    [tramo_id |-> tarifa.id,
     limite_min |-> tarifa.limite_min,
     limite_max |-> tarifa.limite_max,
     consumo_tramo |-> consumo_tramo,
     precio_kwh |-> tarifa.precio_kwh,
     importe_tramo |-> consumo_tramo * tarifa.precio_kwh]

\* DesglosarTramos that bills every bounded tier in full
RECURSIVE DesglosarTramos_tramo_completo(_, _, _)
DesglosarTramos_tramo_completo(ts, restante, desglose) ==
    IF ts = <<>> \/ restante <= 0 THEN desglose
    ELSE LET tarifa == Head(ts)
             consumo_tramo ==
                 IF tarifa.limite_max = None THEN restante
                 ELSE tarifa.limite_max - tarifa.limite_min
         IN  DesglosarTramos_tramo_completo(Tail(ts), restante - consumo_tramo,
                 Append(desglose, EntradaDesglose(tarifa, consumo_tramo)))

\* the for loop of desglosar_consumo_por_tramos over tarifas_ordenadas
RECURSIVE DesglosarTramos(_, _, _)
DesglosarTramos(ts, restante, desglose) ==
    IF ts = <<>> \/ restante <= 0 THEN desglose
    ELSE LET tarifa == Head(ts)
             consumo_tramo ==
                 IF tarifa.limite_max = None THEN restante
                 ELSE Min(restante, tarifa.limite_max - tarifa.limite_min)
         IN  DesglosarTramos(Tail(ts), restante - consumo_tramo,
                 Append(desglose, EntradaDesglose(tarifa, consumo_tramo)))

desglosar_consumo_por_tramos(consumo_total, ts) ==
    IF consumo_total <= 0 \/ ts = <<>> THEN <<>>
    ELSE DesglosarTramos(Sorted(ts), consumo_total, <<>>)

TramosInvalidosError == [estado |-> "TramosInvalidosError"]

\* the consecutivity loop of validar_tramos_tarifas, from index i on: TRUE
\* when some iteration raises
RECURSIVE ConsecutividadFalla(_, _)
ConsecutividadFalla(ordenadas, i) ==
    IF i >= Len(ordenadas) - 1 THEN FALSE
    ELSE LET actual == At(ordenadas, i)
             siguiente == At(ordenadas, i + 1)
         IN  IF actual.limite_max = None THEN TRUE
             ELSE IF actual.limite_max # siguiente.limite_min THEN TRUE
             ELSE ConsecutividadFalla(ordenadas, i + 1)

\* validar_tramos_tarifas that never looks at the last tier's upper bound
validar_tramos_tarifas_sin_ultimo(ts) ==
    IF ts = <<>> THEN TramosInvalidosError
    ELSE LET tarifas_ordenadas == Sorted(ts) IN
         IF At(tarifas_ordenadas, 0).limite_min # 0 THEN TramosInvalidosError
         ELSE IF ConsecutividadFalla(tarifas_ordenadas, 0)
              THEN TramosInvalidosError
              ELSE [estado |-> "ok"]

\* returns None or raises TramosInvalidosError
validar_tramos_tarifas(ts) ==
    IF ts = <<>> THEN TramosInvalidosError
    ELSE LET tarifas_ordenadas == Sorted(ts) IN
         IF At(tarifas_ordenadas, 0).limite_min # 0 THEN TramosInvalidosError
         ELSE IF ConsecutividadFalla(tarifas_ordenadas, 0)
              THEN TramosInvalidosError
              ELSE IF At(tarifas_ordenadas, Len(tarifas_ordenadas) - 1).limite_max # None
                   THEN TramosInvalidosError
                   ELSE [estado |-> "ok"]

----------------------------------------------------------------------------
(* Algorithm 2: rollover detection *)

ResultadoRollover(es_rollover, consumo, requiere_confirmacion) ==
    [es_rollover |-> es_rollover, consumo |-> consumo,
     requiere_confirmacion |-> requiere_confirmacion]

\* detectar_rollover with the threshold comparison made strict
detectar_rollover_umbral_estricto(lectura_anterior, lectura_actual, max_medidor, umbral_rollover) ==
    IF lectura_actual >= lectura_anterior
    THEN ResultadoRollover(FALSE, lectura_actual - lectura_anterior, FALSE)
    ELSE IF lectura_anterior * 100 > max_medidor * umbral_rollover
         THEN ResultadoRollover(TRUE,
                  (max_medidor - lectura_anterior) + lectura_actual, TRUE)
         ELSE ResultadoRollover(FALSE, 0, TRUE)

\* detectar_rollover that takes the plain difference across the rollover
detectar_rollover_sin_vuelta(lectura_anterior, lectura_actual, max_medidor, umbral_rollover) ==
    IF lectura_actual >= lectura_anterior
    THEN ResultadoRollover(FALSE, lectura_actual - lectura_anterior, FALSE)
    ELSE IF lectura_anterior * 100 >= max_medidor * umbral_rollover
         THEN ResultadoRollover(TRUE, lectura_actual - lectura_anterior, TRUE)
         ELSE ResultadoRollover(FALSE, 0, TRUE)

\* umbral_rollover is a percentage: lectura_anterior >= max_medidor * umbral
detectar_rollover(lectura_anterior, lectura_actual, max_medidor, umbral_rollover) ==
    IF lectura_actual >= lectura_anterior
    THEN ResultadoRollover(FALSE, lectura_actual - lectura_anterior, FALSE)
    ELSE IF lectura_anterior * 100 >= max_medidor * umbral_rollover
         THEN ResultadoRollover(TRUE,
                  (max_medidor - lectura_anterior) + lectura_actual, TRUE)
         ELSE ResultadoRollover(FALSE, 0, TRUE)

\* calcular_consumo that asks for confirmation even when it was given
calcular_consumo_ignora_confirmacion(lectura_anterior, lectura_actual, confirmar_rollover) ==
    LET resultado == detectar_rollover(lectura_anterior, lectura_actual,
                                       MAX_MEDIDOR, UMBRAL_ROLLOVER)
    IN  IF resultado.es_rollover
        THEN [estado |-> "RolloverNoConfirmadoError",
              consumo_calculado |-> resultado.consumo]
        ELSE IF resultado.consumo = 0 /\ resultado.requiere_confirmacion
             THEN [estado |-> "LecturaIncoherenteError",
                   anterior |-> lectura_anterior, actual |-> lectura_actual]
             ELSE [estado |-> "ok", consumo |-> resultado.consumo,
                   es_rollover |-> FALSE]

\* calcular_consumo that lets an incoherent decrease through as consumption 0
calcular_consumo_sin_error_coherencia(lectura_anterior, lectura_actual, confirmar_rollover) ==
    LET resultado == detectar_rollover(lectura_anterior, lectura_actual,
                                       MAX_MEDIDOR, UMBRAL_ROLLOVER)
    IN  IF resultado.es_rollover
        THEN IF ~confirmar_rollover /\ resultado.requiere_confirmacion
             THEN [estado |-> "RolloverNoConfirmadoError",
                   consumo_calculado |-> resultado.consumo]
             ELSE [estado |-> "ok", consumo |-> resultado.consumo,
                   es_rollover |-> TRUE]
        ELSE [estado |-> "ok", consumo |-> resultado.consumo,
              es_rollover |-> FALSE]

\* returns (consumo, es_rollover) or raises
calcular_consumo(lectura_anterior, lectura_actual, confirmar_rollover) ==
    LET resultado == detectar_rollover(lectura_anterior, lectura_actual,
                                       MAX_MEDIDOR, UMBRAL_ROLLOVER)
    IN  IF resultado.es_rollover
        THEN IF ~confirmar_rollover /\ resultado.requiere_confirmacion
             THEN [estado |-> "RolloverNoConfirmadoError",
                   consumo_calculado |-> resultado.consumo]
             ELSE [estado |-> "ok", consumo |-> resultado.consumo,
                   es_rollover |-> TRUE]
        ELSE IF resultado.consumo = 0 /\ resultado.requiere_confirmacion
             THEN [estado |-> "LecturaIncoherenteError",
                   anterior |-> lectura_anterior, actual |-> lectura_actual]
             ELSE [estado |-> "ok", consumo |-> resultado.consumo,
                   es_rollover |-> FALSE]

----------------------------------------------------------------------------
(* Algorithm 3: cascade recalculation *)

\* ActualizarAnterior that notices the difference and forgets the assignment
ActualizarAnterior_sin_asignar(lectura, lectura_previa) ==
    [lectura |-> lectura,
     modificada |-> lectura.lectura_anterior # lectura_previa.lectura_actual]

\* if lectura.lectura_anterior != lectura_previa.lectura_actual: ...
ActualizarAnterior(lectura, lectura_previa) ==
    IF lectura.lectura_anterior # lectura_previa.lectura_actual
    THEN [lectura |-> [lectura EXCEPT
                          !.lectura_anterior = lectura_previa.lectura_actual],
          modificada |-> TRUE]
    ELSE [lectura |-> lectura, modificada |-> FALSE]

\* RecalcularConsumo that marks the reading whenever resolution succeeds
RecalcularConsumo_marca_siempre(lectura) ==
    LET r == calcular_consumo(lectura.lectura_anterior, lectura.lectura_actual,
                              lectura.es_rollover)
    IN  IF r.estado = "ok"
        THEN [lectura |-> [lectura EXCEPT !.consumo_kwh = r.consumo,
                                          !.es_rollover = r.es_rollover],
              modificada |-> TRUE]
        ELSE [lectura |-> lectura, modificada |-> FALSE]

\* RecalcularConsumo that zeroes the consumption when resolution fails
RecalcularConsumo_cero_si_falla(lectura) ==
    LET r == calcular_consumo(lectura.lectura_anterior, lectura.lectura_actual,
                              lectura.es_rollover)
    IN  IF r.estado # "ok"
        THEN [lectura |-> [lectura EXCEPT !.consumo_kwh = 0,
                                          !.es_rollover = FALSE],
              modificada |-> lectura.consumo_kwh # 0 \/ lectura.es_rollover]
        ELSE IF Abs(lectura.consumo_kwh - r.consumo) > TOLERANCIA_CONSUMO
        THEN [lectura |-> [lectura EXCEPT !.consumo_kwh = r.consumo,
                                          !.es_rollover = r.es_rollover],
              modificada |-> TRUE]
        ELSE [lectura |-> lectura, modificada |-> FALSE]

\* RecalcularConsumo that rewrites the consumption and forgets the flag
RecalcularConsumo_sin_bandera(lectura) ==
    LET r == calcular_consumo(lectura.lectura_anterior, lectura.lectura_actual,
                              lectura.es_rollover)
    IN  IF r.estado = "ok"
           /\ Abs(lectura.consumo_kwh - r.consumo) > TOLERANCIA_CONSUMO
        THEN [lectura |-> [lectura EXCEPT !.consumo_kwh = r.consumo],
              modificada |-> TRUE]
        ELSE [lectura |-> lectura, modificada |-> FALSE]

\* the try block: calcular_consumo with the stored flag as confirmation;
\* LecturaIncoherenteError and RolloverNoConfirmadoError are swallowed
RecalcularConsumo(lectura) ==
    LET r == calcular_consumo(lectura.lectura_anterior, lectura.lectura_actual,
                              lectura.es_rollover)
    IN  IF r.estado = "ok"
           /\ Abs(lectura.consumo_kwh - r.consumo) > TOLERANCIA_CONSUMO
        THEN [lectura |-> [lectura EXCEPT !.consumo_kwh = r.consumo,
                                          !.es_rollover = r.es_rollover],
              modificada |-> TRUE]
        ELSE [lectura |-> lectura, modificada |-> FALSE]

\* nuevo_importe = calcular_importe(lectura.consumo_kwh, tarifas)
RecalcularImporte(lectura, ts) ==
    LET nuevo_importe == calcular_importe(lectura.consumo_kwh, ts)
    IN  IF Abs(lectura.importe_total - nuevo_importe) > TOLERANCIA_IMPORTE
        THEN [lectura |-> [lectura EXCEPT !.importe_total = nuevo_importe],
              modificada |-> TRUE]
        ELSE [lectura |-> lectura, modificada |-> FALSE]

\* if modificada: lectura.updated_at = datetime.now()
Sellar(lectura, modificada, ahora) ==
    IF modificada THEN [lectura EXCEPT !.updated_at = ahora] ELSE lectura

\* ProcesarLectura that prices the consumption before recomputing it
ProcesarLectura_importe_primero(lectura, lectura_previa, ts, ahora) ==
    LET p1 == ActualizarAnterior(lectura, lectura_previa)
        p3 == RecalcularImporte(p1.lectura, ts)
        p2 == RecalcularConsumo(p3.lectura)
        modificada == p1.modificada \/ p2.modificada \/ p3.modificada
    IN  [lectura |-> Sellar(p2.lectura, modificada, ahora),
         modificada |-> modificada]

\* ProcesarLectura that does not mark a reading whose amount alone changed
ProcesarLectura_importe_sin_marcar(lectura, lectura_previa, ts, ahora) ==
    LET p1 == ActualizarAnterior(lectura, lectura_previa)
        p2 == RecalcularConsumo(p1.lectura)
        p3 == RecalcularImporte(p2.lectura, ts)
        modificada == p1.modificada \/ p2.modificada
    IN  [lectura |-> Sellar(p3.lectura, modificada, ahora),
         modificada |-> modificada]

\* one pass of the loop body for i > 0
ProcesarLectura(lectura, lectura_previa, ts, ahora) ==
    LET p1 == ActualizarAnterior(lectura, lectura_previa)
        p2 == RecalcularConsumo(p1.lectura)
        p3 == RecalcularImporte(p2.lectura, ts)
        modificada == p1.modificada \/ p2.modificada \/ p3.modificada
    IN  [lectura |-> Sellar(p3.lectura, modificada, ahora),
         modificada |-> modificada]

\* for i in range(desde_indice, len(lecturas))
RECURSIVE Bucle(_, _, _, _, _)
Bucle(ls, ts, i, lecturas_modificadas, ahora) ==
    IF i >= Len(ls) THEN [lecturas |-> ls, modificadas |-> lecturas_modificadas]
    ELSE IF i = 0 THEN Bucle(ls, ts, i + 1, lecturas_modificadas, ahora)
    ELSE LET p == ProcesarLectura(At(ls, i), At(ls, i - 1), ts, ahora)
         IN  Bucle([ls EXCEPT ![i + 1] = p.lectura], ts, i + 1,
                   IF p.modificada THEN Append(lecturas_modificadas, i)
                                   ELSE lecturas_modificadas,
                   ahora)

\* recalcular_lecturas_afectadas that ignores desde_indice
recalcular_lecturas_afectadas_desde_cero(ls, ts, desde, ahora) ==
    IF ls = <<>> \/ desde >= Len(ls)
    THEN [lecturas |-> ls, modificadas |-> <<>>]
    ELSE Bucle(ls, ts, 0, <<>>, ahora)

\* the list after the call and the returned list (as indices into it)
recalcular_lecturas_afectadas(ls, ts, desde, ahora) ==
    IF ls = <<>> \/ desde >= Len(ls)
    THEN [lecturas |-> ls, modificadas |-> <<>>]
    ELSE Bucle(ls, ts, desde, <<>>, ahora)

----------------------------------------------------------------------------
(* Inputs *)

\* longest reading list
MaxLecturas == 3

\* meter values: 0, 100 kWh, 100.01 kWh, the meter's maximum
ValoresMedidor == {0, 20000, 20002, MAX_MEDIDOR}

Tarifa(id, limite_min, limite_max, precio_kwh) ==
    [id |-> id, limite_min |-> limite_min, limite_max |-> limite_max,
     precio_kwh |-> precio_kwh]

\* 0-100 kWh at 0.40, above at 1.30 (the first UNE tiers)
TarifasA == <<Tarifa(1, 0, 20000, 8), Tarifa(2, 20000, None, 26)>>

\* another schedule, listed out of order
TarifasB == <<Tarifa(2, 10000, None, 20), Tarifa(1, 0, 10000, 10)>>

TarifasPosibles == {TarifasA, TarifasB}

\* precalcular_lectura with confirmar_rollover = True: what is stored for a
\* reading whose chronological predecessor read lectura_anterior
Precalculo(lectura_anterior, lectura_actual, ts) ==
    LET r == detectar_rollover(lectura_anterior, lectura_actual,
                               MAX_MEDIDOR, UMBRAL_ROLLOVER)
    IN  [lectura_anterior |-> lectura_anterior, consumo |-> r.consumo,
         importe |-> calcular_importe(r.consumo, ts),
         es_rollover |-> r.es_rollover]

\* Lectura(...) as crear_lectura builds it and LecturaRepository.create
\* stores it; dates are day numbers, period n ends on day n
LecturaCreada(n, lectura_anterior, lectura_actual, ts) ==
    LET datos == Precalculo(lectura_anterior, lectura_actual, ts)
    IN  [id |-> n, medidor_id |-> 1, autor_user_id |-> 1,
         fecha_inicio |-> n - 1, fecha_fin |-> n,
         lectura_anterior |-> datos.lectura_anterior,
         lectura_actual |-> lectura_actual,
         consumo_kwh |-> datos.consumo,
         importe_total |-> datos.importe,
         es_rollover |-> datos.es_rollover,
         created_at |-> 0, updated_at |-> 0]

\* Reading lists in chronological order.  Every reading is stored as it was
\* computed against the value its predecessor had at that time (the first
\* against 0) and under the tariffs of that time; the predecessor's value
\* may have been edited since, and the tariffs replaced.
Cadenas(n, ts) ==
    { [i \in 1..n |-> IF i = 1 THEN LecturaCreada(1, 0, primera, ts)
                               ELSE LecturaCreada(i, f[i][1], f[i][2], ts)] :
        primera \in ValoresMedidor,
        f \in [2..n -> ValoresMedidor \X ValoresMedidor] }

CadenasIniciales(ts) ==
    {<<>>} \cup UNION { Cadenas(n, ts) : n \in 1..MaxLecturas }

NingunaLlamada == [fn |-> "ninguna"]

----------------------------------------------------------------------------
(* The cascade on a reading list *)

Init ==
    /\ tarifas \in TarifasPosibles
    /\ lecturas \in CadenasIniciales(TarifasA)
    /\ previas = lecturas
    /\ desde_indice = 0
    /\ modificadas = <<>>
    /\ fase = "inicio"
    /\ reloj = 1
    /\ llamada = NingunaLlamada
    /\ retorno = NingunaLlamada
    /\ SinAplicacion

Llamar(desde, siguiente) ==
    LET r == recalcular_lecturas_afectadas(lecturas, tarifas, desde, reloj)
    IN  /\ previas' = lecturas
        /\ desde_indice' = desde
        /\ lecturas' = r.lecturas
        /\ modificadas' = r.modificadas
        /\ fase' = siguiente
        /\ reloj' = reloj + 1
        /\ UNCHANGED <<tarifas, llamada, retorno>>
        /\ UNCHANGED aplicacion

\* recalcular_lecturas_afectadas(lecturas, tarifas, desde)
Recalcular(desde) ==
    /\ fase = "inicio"
    /\ Llamar(desde, "recalculada")

\* the same call again, on the list as the first call left it
Repetir ==
    /\ fase = "recalculada"
    /\ Llamar(desde_indice, "repetida")

Next ==
    \/ \E desde \in 0..(Len(lecturas) + 1) : Recalcular(desde)
    \/ Repetir

Spec == Init /\ [][Next]_vars

----------------------------------------------------------------------------
(* Calls of the rollover functions *)

\* previous readings: 0, 5 kWh, 100 kWh, one unit under the threshold of
\* MAX_MEDIDOR, the threshold (94999.905 kWh), 99500 kWh, the maximum
AnterioresPosibles == {0, 1000, 20000, 18999980, 18999981, 19900000, MAX_MEDIDOR}

\* current readings: 0, 2.5 kWh, 100 kWh, 150 kWh, the threshold, the maximum
ActualesPosibles == {0, 500, 20000, 30000, 18999981, MAX_MEDIDOR}

\* max_medidor: the default and a 10 kWh counter
MaximosPosibles == {MAX_MEDIDOR, 2000}

\* umbral_rollover: the default and 50 %
UmbralesPosibles == {UMBRAL_ROLLOVER, 50}

InitRollover ==
    /\ lecturas = <<>>
    /\ tarifas = TarifasA
    /\ previas = <<>>
    /\ desde_indice = 0
    /\ modificadas = <<>>
    /\ fase = "inicio"
    /\ reloj = 1
    /\ llamada = NingunaLlamada
    /\ retorno = NingunaLlamada
    /\ SinAplicacion

\* detectar_rollover(lectura_anterior, lectura_actual, max_medidor, umbral)
LlamarDetectarRollover(anterior, actual, maximo, umbral) ==
    /\ llamada' = [fn |-> "detectar_rollover", lectura_anterior |-> anterior,
                   lectura_actual |-> actual, max_medidor |-> maximo,
                   umbral_rollover |-> umbral]
    /\ retorno' = detectar_rollover(anterior, actual, maximo, umbral)
    /\ UNCHANGED <<lecturas, tarifas, previas, desde_indice, modificadas,
                   fase, reloj>>
    /\ UNCHANGED aplicacion

\* calcular_consumo(lectura_anterior, lectura_actual, confirmar_rollover)
LlamarCalcularConsumo(anterior, actual, confirmar) ==
    /\ llamada' = [fn |-> "calcular_consumo", lectura_anterior |-> anterior,
                   lectura_actual |-> actual, confirmar_rollover |-> confirmar]
    /\ retorno' = calcular_consumo(anterior, actual, confirmar)
    /\ UNCHANGED <<lecturas, tarifas, previas, desde_indice, modificadas,
                   fase, reloj>>
    /\ UNCHANGED aplicacion

NextRollover ==
    \/ \E anterior \in AnterioresPosibles, actual \in ActualesPosibles,
          maximo \in MaximosPosibles, umbral \in UmbralesPosibles :
          LlamarDetectarRollover(anterior, actual, maximo, umbral)
    \/ \E anterior \in AnterioresPosibles, actual \in ActualesPosibles,
          confirmar \in BOOLEAN :
          LlamarCalcularConsumo(anterior, actual, confirmar)

SpecRollover == InitRollover /\ [][NextRollover]_vars

----------------------------------------------------------------------------
(* Claims about the rollover functions, checked under SpecRollover *)

EsDetectar == llamada.fn = "detectar_rollover"

EsCalcularConsumo == llamada.fn = "calcular_consumo"

\* previous >= meter_max * fraction, the fraction being a percentage
EnUmbral(anterior, maximo, umbral) == anterior * 100 >= maximo * umbral

\* C8: detectar_rollover returns (false, current - previous, false) when
\* current >= previous; (true, (meter_max - previous) + current, true) when
\* current < previous and previous >= meter_max * fraction, the boundary
\* included; (false, 0, true) when current < previous and previous is below
\* meter_max * fraction.
C8_DetectarRollover ==
    EsDetectar =>
        LET p == llamada.lectura_anterior
            c == llamada.lectura_actual
            m == llamada.max_medidor
            f == llamada.umbral_rollover
        IN  /\ c >= p =>
                retorno = [es_rollover |-> FALSE, consumo |-> c - p,
                           requiere_confirmacion |-> FALSE]
            /\ (c < p /\ EnUmbral(p, m, f)) =>
                retorno = [es_rollover |-> TRUE, consumo |-> (m - p) + c,
                           requiere_confirmacion |-> TRUE]
            /\ (c < p /\ ~EnUmbral(p, m, f)) =>
                retorno = [es_rollover |-> FALSE, consumo |-> 0,
                           requiere_confirmacion |-> TRUE]

\* C8 witness: a decrease from exactly meter_max * fraction, classified as
\* rollover
C8_Witness ==
    /\ EsDetectar
    /\ llamada.lectura_actual < llamada.lectura_anterior
    /\ llamada.lectura_anterior * 100
         = llamada.max_medidor * llamada.umbral_rollover
    /\ retorno.es_rollover
    /\ retorno.requiere_confirmacion

\* C9 as stated: with confirm = true calcular_consumo never fails and
\* returns the consumption and the flag detectar_rollover computes, in the
\* rollover branch and in the anomaly branch alike.
C9_Original ==
    (EsCalcularConsumo /\ llamada.confirmar_rollover) =>
        LET d == detectar_rollover(llamada.lectura_anterior,
                     llamada.lectura_actual, MAX_MEDIDOR, UMBRAL_ROLLOVER)
        IN  retorno = [estado |-> "ok", consumo |-> d.consumo,
                       es_rollover |-> d.es_rollover]

\* C9 amended: with confirm = true calcular_consumo never fails with
\* RolloverNoConfirmadoError; when current >= previous and in the rollover
\* branch it returns the consumption and the flag detectar_rollover computes;
\* in the anomaly branch (a decrease with previous below the threshold) it
\* still fails with LecturaIncoherenteError.
C9_Confirmado ==
    (EsCalcularConsumo /\ llamada.confirmar_rollover) =>
        LET p == llamada.lectura_anterior
            c == llamada.lectura_actual
            d == detectar_rollover(p, c, MAX_MEDIDOR, UMBRAL_ROLLOVER)
            anomalia == c < p /\ ~EnUmbral(p, MAX_MEDIDOR, UMBRAL_ROLLOVER)
        IN  /\ retorno.estado # "RolloverNoConfirmadoError"
            /\ ~anomalia =>
                retorno = [estado |-> "ok", consumo |-> d.consumo,
                           es_rollover |-> d.es_rollover]
            /\ anomalia =>
                retorno = [estado |-> "LecturaIncoherenteError",
                           anterior |-> p, actual |-> c]

\* C9 witness: a confirmed rollover is returned with its consumption
C9_Witness ==
    /\ EsCalcularConsumo
    /\ llamada.confirmar_rollover
    /\ llamada.lectura_actual < llamada.lectura_anterior
    /\ retorno.estado = "ok"
    /\ retorno.es_rollover
    /\ retorno.consumo = (MAX_MEDIDOR - llamada.lectura_anterior)
                            + llamada.lectura_actual

\* C10: with confirm = false calcular_consumo returns (current - previous,
\* false) when current >= previous; fails with RolloverNoConfirmadoError
\* carrying (meter_max - previous) + current when current < previous and
\* previous >= 0.95 * meter_max; fails with LecturaIncoherenteError when
\* current < previous and previous < 0.95 * meter_max.
C10_SinConfirmar ==
    (EsCalcularConsumo /\ ~llamada.confirmar_rollover) =>
        LET p == llamada.lectura_anterior
            c == llamada.lectura_actual
            cerca == p * 100 >= MAX_MEDIDOR * 95
        IN  /\ c >= p =>
                retorno = [estado |-> "ok", consumo |-> c - p,
                           es_rollover |-> FALSE]
            /\ (c < p /\ cerca) =>
                /\ retorno.estado = "RolloverNoConfirmadoError"
                /\ retorno.consumo_calculado = (MAX_MEDIDOR - p) + c
            /\ (c < p /\ ~cerca) =>
                retorno.estado = "LecturaIncoherenteError"

\* C10 witness: an unconfirmed decrease far from the maximum is refused as
\* incoherent
C10_Witness ==
    /\ EsCalcularConsumo
    /\ ~llamada.confirmar_rollover
    /\ llamada.lectura_actual < llamada.lectura_anterior
    /\ llamada.lectura_anterior * 100 < MAX_MEDIDOR * 95
    /\ retorno.estado = "LecturaIncoherenteError"

----------------------------------------------------------------------------
(* Claims about the cascade, checked under Spec.  After a call, previas is *)
(* the list the call received, lecturas the list as it left it,            *)
(* desde_indice its argument and modificadas what it returned.             *)

Llamado == fase # "inicio"

\* max(from_index, 1)
PrimerIndice == IF desde_indice < 1 THEN 1 ELSE desde_indice

\* the indices the loop works on
Afectados == PrimerIndice..(Len(lecturas) - 1)

Retornados == { modificadas[k] : k \in DOMAIN modificadas }

\* rollover resolution of reading i against its predecessor's current value
\* (no call changes a current value), confirmed by the flag it had
Resolucion(i) ==
    calcular_consumo(At(previas, i - 1).lectura_actual,
                     At(previas, i).lectura_actual, At(previas, i).es_rollover)

Falla(i) == Resolucion(i).estado # "ok"

\* C1: after the call every reading at index i >= max(from_index, 1) has
\* lectura_anterior equal to lectura_actual of the reading at i - 1, whether
\* or not its rollover resolution failed.
C1_AnteriorEncadenada ==
    Llamado =>
        \A i \in Afectados :
            At(lecturas, i).lectura_anterior = At(lecturas, i - 1).lectura_actual

\* C1 witness: a reading whose link was broken and whose resolution fails
\* has been given its predecessor's value
C1_Witness ==
    /\ Llamado
    /\ \E i \in Afectados :
        /\ At(previas, i).lectura_anterior # At(previas, i - 1).lectura_actual
        /\ Falla(i)
        /\ At(lecturas, i).lectura_anterior = At(lecturas, i - 1).lectura_actual

\* C2: a second call with the same arguments on the list as the first call
\* left it returns an empty list and changes no field of any reading,
\* updated_at included.
C2_Idempotente ==
    fase = "repetida" => (modificadas = <<>> /\ lecturas = previas)

\* C2 witness: the second call has run on a list the first call modified
C2_Witness ==
    /\ fase = "repetida"
    /\ desde_indice >= 1
    /\ \E i \in Afectados : At(lecturas, i).updated_at = reloj - 2
    /\ \E i \in Afectados : Falla(i)

CambioDeCampos(i) ==
    \/ At(lecturas, i).lectura_anterior # At(previas, i).lectura_anterior
    \/ At(lecturas, i).consumo_kwh # At(previas, i).consumo_kwh
    \/ At(lecturas, i).es_rollover # At(previas, i).es_rollover
    \/ At(lecturas, i).importe_total # At(previas, i).importe_total

\* the reading is already up to date: linked to its predecessor, the stored
\* consumption and amount within 0.01 of the recomputed ones
AlDia(i) ==
    /\ At(previas, i).lectura_anterior = At(previas, i - 1).lectura_actual
    /\ ~Falla(i)
    /\ Abs(At(previas, i).consumo_kwh - Resolucion(i).consumo)
         <= TOLERANCIA_CONSUMO
    /\ Abs(At(previas, i).importe_total
             - calcular_importe(At(previas, i).consumo_kwh, tarifas))
         <= TOLERANCIA_IMPORTE

\* C3: the returned list holds exactly the readings of which lectura_anterior,
\* consumo_kwh, es_rollover or importe_total changed, each once, in the order
\* of the input; a reading at index >= from_index that is already up to date
\* is neither modified nor returned.
C3_ModificadasExactas ==
    Llamado =>
        /\ \A k \in DOMAIN modificadas : modificadas[k] \in 0..(Len(lecturas) - 1)
        /\ \A k \in 1..(Len(modificadas) - 1) : modificadas[k] < modificadas[k + 1]
        /\ \A i \in 0..(Len(lecturas) - 1) : (i \in Retornados) <=> CambioDeCampos(i)
        /\ \A i \in Afectados :
              AlDia(i) => (At(lecturas, i) = At(previas, i) /\ i \notin Retornados)

\* C3 witness: one reading is returned and another, whose stored amount
\* differs from the recomputed one by no more than 0.01, is left alone
C3_Witness ==
    /\ Llamado
    /\ \E i, j \in Afectados :
        /\ i \in Retornados
        /\ CambioDeCampos(i)
        /\ j \notin Retornados
        /\ AlDia(j)
        /\ At(previas, j).importe_total
             # calcular_importe(At(previas, j).consumo_kwh, tarifas)

\* reading j was worked on: linked, priced, and recomputed when it resolves
Procesada(j) ==
    /\ At(lecturas, j).lectura_anterior = At(lecturas, j - 1).lectura_actual
    /\ Abs(At(lecturas, j).importe_total
             - calcular_importe(At(lecturas, j).consumo_kwh, tarifas))
         <= TOLERANCIA_IMPORTE
    /\ ~Falla(j) =>
          Abs(At(lecturas, j).consumo_kwh - Resolucion(j).consumo)
            <= TOLERANCIA_CONSUMO

\* C4: when rollover resolution fails for a reading, its consumo_kwh and
\* es_rollover keep their stored values, and every later reading is still
\* processed.
C4_FalloNoDetiene ==
    Llamado =>
        \A i \in Afectados :
            Falla(i) =>
                /\ At(lecturas, i).consumo_kwh = At(previas, i).consumo_kwh
                /\ At(lecturas, i).es_rollover = At(previas, i).es_rollover
                /\ \A j \in Afectados : j > i => Procesada(j)

\* C4 witness: a reading fails to resolve, keeps a non-zero consumption, and
\* a later reading is recomputed and returned
C4_Witness ==
    /\ Llamado
    /\ \E i, j \in Afectados :
        /\ Falla(i)
        /\ At(lecturas, i).consumo_kwh > 0
        /\ j > i
        /\ ~Falla(j)
        /\ At(lecturas, j).consumo_kwh # At(previas, j).consumo_kwh
        /\ j \in Retornados

\* C5: after the call every reading at index i >= max(from_index, 1) has
\* importe_total within 0.01 of calcular_importe(its stored consumption,
\* tariffs), readings whose resolution failed included.
C5_ImporteDelConsumo ==
    Llamado =>
        \A i \in Afectados :
            Abs(At(lecturas, i).importe_total
                  - calcular_importe(At(lecturas, i).consumo_kwh, tarifas))
              <= TOLERANCIA_IMPORTE

\* C5 witness: a reading whose consumption was rewritten got the amount of
\* the new consumption, and a reading that failed to resolve was repriced
C5_Witness ==
    /\ Llamado
    /\ \E i \in Afectados :
        /\ ~Falla(i)
        /\ At(lecturas, i).consumo_kwh # At(previas, i).consumo_kwh
        /\ At(lecturas, i).importe_total # At(previas, i).importe_total
    /\ \E i \in Afectados :
        /\ Falla(i)
        /\ At(lecturas, i).importe_total # At(previas, i).importe_total

\* the consumption invariant of a reading (within 0.01)
InvarianteConsumo(l) ==
    IF l.es_rollover
    THEN Abs(l.consumo_kwh - ((MAX_MEDIDOR - l.lectura_anterior) + l.lectura_actual))
           <= TOLERANCIA_CONSUMO
    ELSE Abs(l.consumo_kwh - (l.lectura_actual - l.lectura_anterior))
           <= TOLERANCIA_CONSUMO

\* The list the call of C6 receives: every reading satisfies the invariant
\* on its own fields, the reading before from_index has been edited (the next
\* one still holds its old value) and every other link is intact.
TrasEdicion ==
    /\ desde_indice >= 1
    /\ desde_indice < Len(previas)
    /\ \A i \in 1..(Len(previas) - 1) : InvarianteConsumo(At(previas, i))
    /\ At(previas, desde_indice).lectura_anterior
         # At(previas, desde_indice - 1).lectura_actual
    /\ \A i \in 1..(Len(previas) - 1) :
          i # desde_indice =>
              At(previas, i).lectura_anterior = At(previas, i - 1).lectura_actual

\* C6 as stated: from a list in which every reading satisfies the invariant,
\* after one reading's lectura_actual is edited and the cascade is run from
\* the next index, every reading at index >= 1 satisfies it.
C6_Original ==
    (fase = "recalculada" /\ TrasEdicion) =>
        \A i \in 1..(Len(lecturas) - 1) : InvarianteConsumo(At(lecturas, i))

\* C6 amended: in that situation every reading at index >= from_index whose
\* rollover resolution succeeds has consumo_kwh within 0.01 of
\* lectura_actual - lectura_anterior when lectura_actual >= lectura_anterior
\* and of (MAX_MEDIDOR - lectura_anterior) + lectura_actual otherwise, and
\* es_rollover says which of the two whenever consumo_kwh was rewritten; a
\* reading whose resolution fails keeps its stored consumo_kwh and
\* es_rollover, and a reading whose consumo_kwh is not rewritten keeps its
\* stored es_rollover.
C6_ConsumoResuelto ==
    (fase = "recalculada" /\ TrasEdicion) =>
        \A i \in Afectados :
            LET l == At(lecturas, i)
                v == At(previas, i)
                normal == l.lectura_actual >= l.lectura_anterior
                esperado == IF normal
                            THEN l.lectura_actual - l.lectura_anterior
                            ELSE (MAX_MEDIDOR - l.lectura_anterior) + l.lectura_actual
            IN  /\ ~Falla(i) =>
                      Abs(l.consumo_kwh - esperado) <= TOLERANCIA_CONSUMO
                /\ l.consumo_kwh # v.consumo_kwh =>
                      (~Falla(i) /\ l.es_rollover = ~normal)
                /\ l.consumo_kwh = v.consumo_kwh =>
                      l.es_rollover = v.es_rollover

\* C6 witness: after the edit the next reading, stored as a rollover, is no
\* longer a decrease: its consumption is rewritten and its flag cleared
C6_Witness ==
    /\ fase = "recalculada"
    /\ TrasEdicion
    /\ \E i \in Afectados :
        /\ At(previas, i).es_rollover
        /\ ~At(lecturas, i).es_rollover
        /\ At(lecturas, i).consumo_kwh
             = At(lecturas, i).lectura_actual - At(lecturas, i).lectura_anterior
        /\ At(lecturas, i).consumo_kwh # At(previas, i).consumo_kwh

MismosCamposFijos(a, b) ==
    /\ a.id = b.id
    /\ a.medidor_id = b.medidor_id
    /\ a.autor_user_id = b.autor_user_id
    /\ a.fecha_inicio = b.fecha_inicio
    /\ a.fecha_fin = b.fecha_fin
    /\ a.created_at = b.created_at
    /\ a.lectura_actual = b.lectura_actual

\* C7: the call never changes the length or order of the list, nor any
\* reading's id, meter, author, period dates, created_at or lectura_actual,
\* nor any field of a reading at an index below max(from_index, 1); an empty
\* list or from_index >= length returns an empty list with nothing modified.
C7_Marco ==
    Llamado =>
        /\ Len(lecturas) = Len(previas)
        /\ \A i \in 0..(Len(lecturas) - 1) :
              MismosCamposFijos(At(lecturas, i), At(previas, i))
        /\ \A i \in 0..(Len(lecturas) - 1) :
              i < PrimerIndice =>
                  (At(lecturas, i) = At(previas, i) /\ i \notin Retornados)
        /\ (previas = <<>> \/ desde_indice >= Len(previas)) =>
              (modificadas = <<>> /\ lecturas = previas)

\* C7 witness: called from index 2, the cascade leaves the out-of-date
\* reading at index 1 alone and rewrites the one at index 2
C7_Witness ==
    /\ Llamado
    /\ desde_indice = 2
    /\ Len(lecturas) > 2
    /\ At(previas, 1).lectura_anterior # At(previas, 0).lectura_actual
    /\ At(lecturas, 1) = At(previas, 1)
    /\ 2 \in Retornados
    /\ At(lecturas, 2) # At(previas, 2)

----------------------------------------------------------------------------
(* Calls of the tariff functions *)

\* longest tier list drawn
MaxTramos == 3

\* get_tarifas_une() / TARIFAS_UNE_DEFAULT: the 10 UNE tiers, limits at
\* 100, 150, ..., 500 kWh, prices 0.40 ... 25.00 CUP
TARIFAS_UNE ==
    <<Tarifa(1, 0, 20000, 8), Tarifa(2, 20000, 30000, 26),
      Tarifa(3, 30000, 40000, 35), Tarifa(4, 40000, 50000, 60),
      Tarifa(5, 50000, 60000, 80), Tarifa(6, 60000, 70000, 150),
      Tarifa(7, 70000, 80000, 180), Tarifa(8, 80000, 90000, 200),
      Tarifa(9, 90000, 100000, 300), Tarifa(10, 100000, None, 500)>>

\* list(reversed(ts))
Invertir(ts) == [i \in 1..Len(ts) |-> ts[Len(ts) + 1 - i]]

\* Tiers over the limits 0, 100 and 150 kWh, each with its own price: the
\* three of test_tarifas_desordenadas, a single unbounded tier, two
\* overlapping ones, two zero-width ones and one whose limits decrease
TramosPosibles ==
    { Tarifa(1, 0, 20000, 8), Tarifa(2, 20000, 30000, 26),
      Tarifa(3, 30000, None, 35),
      Tarifa(4, 0, None, 60), Tarifa(5, 20000, None, 80),
      Tarifa(6, 0, 30000, 150),
      Tarifa(7, 0, 0, 180), Tarifa(8, 20000, 20000, 200),
      Tarifa(9, 30000, 20000, 300) }

\* consumptions: -50, 0, 100, 125.5, 150 and 175 kWh
ConsumosPosibles == {-10000, 0, 20000, 25100, 30000, 35000}

\* the consumptions of TestCalculoImporte: 100, 150, 550 and 1000 kWh
ConsumosUNE == {20000, 30000, 110000, 200000}

\* the calls made with a tier list and a consumption
LlamadasCon(ts, c) ==
    { [fn |-> "calcular_importe", consumo_total |-> c, tarifas |-> ts],
      [fn |-> "desglosar_consumo_por_tramos", consumo_total |-> c,
       tarifas |-> ts],
      [fn |-> "validar_tramos_tarifas", tarifas |-> ts] }

InitTarifas ==
    /\ lecturas = <<>>
    /\ tarifas = TARIFAS_UNE
    /\ previas = <<>>
    /\ desde_indice = 0
    /\ modificadas = <<>>
    /\ fase = "inicio"
    /\ reloj = 1
    /\ \/ \E n \in 0..MaxTramos : \E ts \in [1..n -> TramosPosibles] :
             \E c \in ConsumosPosibles : llamada \in LlamadasCon(ts, c)
       \/ \E ts \in {TARIFAS_UNE, Invertir(TARIFAS_UNE)} :
             \E c \in ConsumosUNE : llamada \in LlamadasCon(ts, c)
    /\ retorno = NingunaLlamada
    /\ SinAplicacion

\* the call returns (or raises): retorno holds the outcome
Retornar(resultado) ==
    /\ fase = "inicio"
    /\ retorno' = resultado
    /\ fase' = "retornada"
    /\ UNCHANGED <<lecturas, tarifas, previas, desde_indice, modificadas,
                   reloj, llamada>>
    /\ UNCHANGED aplicacion

\* calcular_importe(consumo_total, tarifas)
LlamarCalcularImporte ==
    /\ llamada.fn = "calcular_importe"
    /\ Retornar(calcular_importe(llamada.consumo_total, llamada.tarifas))

\* desglosar_consumo_por_tramos(consumo_total, tarifas)
LlamarDesglosar ==
    /\ llamada.fn = "desglosar_consumo_por_tramos"
    /\ Retornar(desglosar_consumo_por_tramos(llamada.consumo_total,
                                             llamada.tarifas))

\* validar_tramos_tarifas(tarifas)
LlamarValidarTramos ==
    /\ llamada.fn = "validar_tramos_tarifas"
    /\ Retornar(validar_tramos_tarifas(llamada.tarifas))

NextTarifas ==
    \/ LlamarCalcularImporte
    \/ LlamarDesglosar
    \/ LlamarValidarTramos

SpecTarifas == InitTarifas /\ [][NextTarifas]_vars

----------------------------------------------------------------------------
(* Claims about the tariff functions, checked under SpecTarifas *)

Retornada(fn) == fase = "retornada" /\ llamada.fn = fn

Aceptada(ts) == validar_tramos_tarifas(ts).estado = "ok"

\* every ordering of the list ts
Ordenaciones(ts) ==
    { [i \in 1..Len(ts) |-> ts[p[i]]] : p \in Permutations(1..Len(ts)) }

Max(a, b) == IF a > b THEN a ELSE b

\* length of the overlap of [0, c] with the tier's [limite_min, limite_max)
Solape(t, c) ==
    IF t.limite_max = None THEN Max(0, c - t.limite_min)
    ELSE Max(0, Min(c, t.limite_max) - t.limite_min)

RECURSIVE SumaSolapes(_, _)
SumaSolapes(ts, c) ==
    IF ts = <<>> THEN 0
    ELSE Solape(Head(ts), c) * Head(ts).precio_kwh + SumaSolapes(Tail(ts), c)

\* C11: for every tier list accepted by validar_tramos_tarifas and every
\* consumption c, calcular_importe(c, tiers) is the sum over the tiers of
\* price times the length of the overlap of [0, c] with the tier's interval;
\* it is 0 when c <= 0 or the list is empty; on the UNE schedule 100 kWh
\* costs 40, 150 costs 105, 550 costs 3867.5 and 1000 costs 15117.5.
C11_ImportePorSolape ==
    Retornada("calcular_importe") =>
        LET c == llamada.consumo_total
            ts == llamada.tarifas
        IN  /\ (c <= 0 \/ ts = <<>>) => retorno = 0
            /\ Aceptada(ts) => retorno = SumaSolapes(ts, c)
            /\ ts = TARIFAS_UNE =>
                 /\ c = 20000 => retorno = 160000
                 /\ c = 30000 => retorno = 420000
                 /\ c = 110000 => retorno = 15470000
                 /\ c = 200000 => retorno = 60470000

\* C11 witness: 1000 kWh on the UNE schedule, billed in all ten tiers
C11_Witness ==
    /\ Retornada("calcular_importe")
    /\ llamada.tarifas = TARIFAS_UNE
    /\ llamada.consumo_total = 200000
    /\ Aceptada(llamada.tarifas)
    /\ retorno = 60470000

\* C12: for every accepted tier list with non-negative prices and all
\* consumptions a < b, calcular_importe(a, tiers) <= calcular_importe(b, tiers).
C12_Monotona ==
    Retornada("calcular_importe") =>
        LET b == llamada.consumo_total
            ts == llamada.tarifas
        IN  (Aceptada(ts) /\ \A i \in 1..Len(ts) : ts[i].precio_kwh >= 0) =>
                \A a \in ConsumosPosibles \cup ConsumosUNE :
                    a < b => calcular_importe(a, ts) <= retorno

\* C12 witness: 100 kWh fills the first of two tiers, 125.5 kWh enters the
\* second, and costs more
C12_Witness ==
    /\ Retornada("calcular_importe")
    /\ Aceptada(llamada.tarifas)
    /\ Len(llamada.tarifas) = 2
    /\ llamada.consumo_total = 25100
    /\ \E i, j \in 1..2 :
          /\ llamada.tarifas[i].limite_max = 20000
          /\ llamada.tarifas[j].limite_min = 20000
    /\ calcular_importe(20000, llamada.tarifas) < retorno

\* C13: for every consumption and every well-formed tier set,
\* calcular_importe returns the same value for every ordering of the list
\* (every permutation of the lists of up to MaxTramos tiers; the UNE schedule
\* and its reverse).
C13_OrdenIndiferente ==
    Retornada("calcular_importe") =>
        LET c == llamada.consumo_total
            ts == llamada.tarifas
        IN  /\ (Len(ts) <= MaxTramos /\ \E q \in Ordenaciones(ts) : Aceptada(q))
                  => \A o \in Ordenaciones(ts) : calcular_importe(c, o) = retorno
            /\ ts = TARIFAS_UNE => calcular_importe(c, Invertir(ts)) = retorno

\* C13 witness: test_tarifas_desordenadas, 175 kWh on the tiers given as
\* 100-150, 0-100, 150-unbounded, costs 148.75
C13_Witness ==
    /\ Retornada("calcular_importe")
    /\ llamada.tarifas = <<Tarifa(2, 20000, 30000, 26), Tarifa(1, 0, 20000, 8),
                           Tarifa(3, 30000, None, 35)>>
    /\ llamada.consumo_total = 35000
    /\ retorno = 595000

RECURSIVE SumaImportes(_)
SumaImportes(desglose) ==
    IF desglose = <<>> THEN 0
    ELSE Head(desglose).importe_tramo + SumaImportes(Tail(desglose))

\* C14: for every consumption c and tier list, the breakdown lists tiers in
\* ascending lower-bound order and its per-tier amounts add up to
\* calcular_importe(c, tiers); it is empty when c <= 0 or the list is empty.
C14_DesgloseSuma ==
    Retornada("desglosar_consumo_por_tramos") =>
        LET c == llamada.consumo_total
            ts == llamada.tarifas
        IN  /\ \A i \in 1..(Len(retorno) - 1) :
                  retorno[i].limite_min <= retorno[i + 1].limite_min
            /\ SumaImportes(retorno) = calcular_importe(c, ts)
            /\ (c <= 0 \/ ts = <<>>) => retorno = <<>>

\* C14 witness: test_desglose_dos_tramos, 150 kWh on the UNE schedule given
\* in reverse: 100 kWh for 40 and 50 kWh for 65
C14_Witness ==
    /\ Retornada("desglosar_consumo_por_tramos")
    /\ llamada.tarifas = Invertir(TARIFAS_UNE)
    /\ llamada.consumo_total = 30000
    /\ Len(retorno) = 2
    /\ retorno[1].consumo_tramo = 20000 /\ retorno[1].importe_tramo = 160000
    /\ retorno[2].consumo_tramo = 10000 /\ retorno[2].importe_tramo = 260000

\* the tiers, sorted ascending by lower bound, are non-empty, start at 0,
\* chain without gap or overlap, and only the last is unbounded
BienFormada(ts) ==
    LET o == Sorted(ts)
        n == Len(o)
    IN  /\ n > 0
        /\ o[1].limite_min = 0
        /\ \A i \in 1..(n - 1) :
              /\ o[i].limite_max # None
              /\ o[i].limite_max = o[i + 1].limite_min
        /\ o[n].limite_max = None

\* C15: validar_tramos_tarifas succeeds if and only if, sorted ascending by
\* lower bound, the set is non-empty, the first lower bound is 0, every
\* non-final tier has a bounded upper bound equal to the next lower bound,
\* and the final upper bound is unbounded; otherwise TramosInvalidosError.
C15_Validador ==
    Retornada("validar_tramos_tarifas") =>
        /\ retorno.estado = "ok" <=> BienFormada(llamada.tarifas)
        /\ retorno.estado # "ok" => retorno.estado = "TramosInvalidosError"

\* C15 witness: test_ultimo_tramo_no_infinito, tiers 0-100 and 100-150 with
\* no unbounded tier, rejected
C15_Witness ==
    /\ Retornada("validar_tramos_tarifas")
    /\ llamada.tarifas = <<Tarifa(1, 0, 20000, 8), Tarifa(2, 20000, 30000, 26)>>
    /\ retorno.estado = "TramosInvalidosError"

----------------------------------------------------------------------------
(* The stored tariff schedule (TarifaRepository) *)

\* the columns replace_all and _load_default_tarifas insert; the id column,
\* which the database assigns, is left out
Fila(t) ==
    [limite_min |-> t.limite_min, limite_max |-> t.limite_max,
     precio_kwh |-> t.precio_kwh]

Filas(ts) == [i \in 1..Len(ts) |-> Fila(ts[i])]

\* tiers handed to replace_all: 0-100, 100-150, 150-unbounded, 0-unbounded
\* and 100-unbounded
TramosReemplazo == { t \in TramosPosibles : t.id <= 5 }

\* the table after initialize_database: the 10 UNE tiers
InitTarifaRepo ==
    /\ lecturas = <<>>
    /\ tarifas = Filas(TARIFAS_UNE)
    /\ previas = <<>>
    /\ desde_indice = 0
    /\ modificadas = <<>>
    /\ fase = "inicio"
    /\ reloj = 1
    /\ llamada = NingunaLlamada
    /\ retorno = NingunaLlamada
    /\ SinAplicacion

\* TarifaRepository.replace_all(tarifas): DELETE FROM tarifas, one INSERT
\* per tier, commit
replace_all(nuevas) ==
    /\ tarifas' = Filas(nuevas)
    /\ llamada' = [fn |-> "replace_all", tarifas |-> nuevas]
    /\ retorno' = [estado |-> "ok"]
    /\ UNCHANGED <<lecturas, previas, desde_indice, modificadas, fase, reloj>>
    /\ UNCHANGED aplicacion

NextTarifaRepo ==
    \E n \in 0..MaxTramos : \E nuevas \in [1..n -> TramosReemplazo] :
        replace_all(nuevas)

SpecTarifaRepo == InitTarifaRepo /\ [][NextTarifaRepo]_vars

\* C16: whenever the stored schedule is replaced (replace_all) the validator
\* is run on the new tier set first; a malformed set blocks the replacement
\* with TramosInvalidosError, so the stored schedule is well-formed in every
\* reachable state.
C16_Original ==
    /\ Aceptada(tarifas)
    /\ (llamada.fn = "replace_all" /\ ~Aceptada(llamada.tarifas)) =>
           retorno.estado = "TramosInvalidosError"

----------------------------------------------------------------------------
(* Retroactive validation (RF-30) *)

\* Optional[Lectura] = None
LecturaNone == [id |-> None]

LecturaRetroactivaInvalidaError == [estado |-> "LecturaRetroactivaInvalidaError"]

\* validar_lectura_retroactiva that never asks whether the decrease is a
\* rollover
validar_lectura_retroactiva_sin_rollover(nueva_lectura, fecha_nueva, lectura_anterior, lectura_posterior) ==
    IF /\ lectura_anterior # LecturaNone
       /\ nueva_lectura < lectura_anterior.lectura_actual
    THEN LecturaRetroactivaInvalidaError
    ELSE IF /\ lectura_posterior # LecturaNone
            /\ nueva_lectura > lectura_posterior.lectura_actual
         THEN LecturaRetroactivaInvalidaError
         ELSE [estado |-> "ok"]

\* returns None or raises LecturaRetroactivaInvalidaError
validar_lectura_retroactiva(nueva_lectura, fecha_nueva, lectura_anterior, lectura_posterior) ==
    IF /\ lectura_anterior # LecturaNone
       /\ nueva_lectura < lectura_anterior.lectura_actual
       /\ ~detectar_rollover(lectura_anterior.lectura_actual, nueva_lectura,
                             MAX_MEDIDOR, UMBRAL_ROLLOVER).es_rollover
    THEN LecturaRetroactivaInvalidaError
    ELSE IF /\ lectura_posterior # LecturaNone
            /\ nueva_lectura > lectura_posterior.lectura_actual
         THEN LecturaRetroactivaInvalidaError
         ELSE [estado |-> "ok"]

\* meter values: 0, 100, 150 kWh, one unit under the rollover threshold, the
\* threshold and the maximum
ValoresRetroactiva == {0, 20000, 30000, 18999980, 18999981, MAX_MEDIDOR}

\* the stored neighbour whose period ends on day n, or none
VecinasPosibles(n) ==
    {LecturaNone} \cup { LecturaCreada(n, 0, v, TarifasA) : v \in ValoresRetroactiva }

InitRetroactiva ==
    /\ lecturas = <<>>
    /\ tarifas = TarifasA
    /\ previas = <<>>
    /\ desde_indice = 0
    /\ modificadas = <<>>
    /\ fase = "inicio"
    /\ reloj = 1
    /\ \E nueva \in ValoresRetroactiva, anterior \in VecinasPosibles(1),
          posterior \in VecinasPosibles(3) :
          llamada = [fn |-> "validar_lectura_retroactiva",
                     nueva_lectura |-> nueva, fecha_nueva |-> 2,
                     lectura_anterior |-> anterior,
                     lectura_posterior |-> posterior]
    /\ retorno = NingunaLlamada
    /\ SinAplicacion

\* validar_lectura_retroactiva(nueva, fecha, anterior, posterior)
LlamarValidarRetroactiva ==
    /\ llamada.fn = "validar_lectura_retroactiva"
    /\ Retornar(validar_lectura_retroactiva(llamada.nueva_lectura,
                    llamada.fecha_nueva, llamada.lectura_anterior,
                    llamada.lectura_posterior))

NextRetroactiva == LlamarValidarRetroactiva

SpecRetroactiva == InitRetroactiva /\ [][NextRetroactiva]_vars

----------------------------------------------------------------------------
(* Edit and delete permissions (RF-31 to RF-37).  Times are in minutes. *)

\* VINCULADO_EDIT_HOURS = 48
VINCULADO_EDIT_HOURS == 48

\* timedelta(hours=h), in minutes
Horas(h) == h * 60

\* Usuario.es_admin
es_admin(usuario) == usuario.rol = "admin"

PermisoDenegadoError == [estado |-> "PermisoDenegadoError"]

TiempoEdicionExpiradoError(horas) ==
    [estado |-> "TiempoEdicionExpiradoError", horas |-> horas]

\* verificar_permiso_edicion_lectura that forgets the owner's exemption
verificar_permiso_edicion_lectura_sin_propietario(usuario, lectura, medidor, es_propietario, ahora) ==
    IF es_admin(usuario) THEN [estado |-> "ok"]
    ELSE IF lectura.autor_user_id # usuario.id THEN PermisoDenegadoError
    ELSE IF /\ lectura.created_at # None
            /\ ahora - lectura.created_at > Horas(VINCULADO_EDIT_HOURS)
         THEN TiempoEdicionExpiradoError(VINCULADO_EDIT_HOURS)
         ELSE [estado |-> "ok"]

\* verificar_permiso_edicion_lectura whose window closes at 48 hours sharp
verificar_permiso_edicion_lectura_plazo_estricto(usuario, lectura, medidor, es_propietario, ahora) ==
    IF es_admin(usuario) THEN [estado |-> "ok"]
    ELSE IF es_propietario THEN [estado |-> "ok"]
    ELSE IF lectura.autor_user_id # usuario.id THEN PermisoDenegadoError
    ELSE IF /\ lectura.created_at # None
            /\ ahora - lectura.created_at >= Horas(VINCULADO_EDIT_HOURS)
         THEN TiempoEdicionExpiradoError(VINCULADO_EDIT_HOURS)
         ELSE [estado |-> "ok"]

\* returns None or raises; ahora is datetime.now()
verificar_permiso_edicion_lectura(usuario, lectura, medidor, es_propietario, ahora) ==
    IF es_admin(usuario) THEN [estado |-> "ok"]
    ELSE IF es_propietario THEN [estado |-> "ok"]
    ELSE IF lectura.autor_user_id # usuario.id THEN PermisoDenegadoError
    ELSE IF /\ lectura.created_at # None
            /\ ahora - lectura.created_at > Horas(VINCULADO_EDIT_HOURS)
         THEN TiempoEdicionExpiradoError(VINCULADO_EDIT_HOURS)
         ELSE [estado |-> "ok"]

\* verificar_permiso_eliminacion_lectura that lets only the owner through
verificar_permiso_eliminacion_lectura_sin_admin(usuario, medidor, es_propietario) ==
    IF ~es_propietario THEN PermisoDenegadoError
    ELSE [estado |-> "ok"]

\* returns None or raises PermisoDenegadoError
verificar_permiso_eliminacion_lectura(usuario, medidor, es_propietario) ==
    IF es_admin(usuario) THEN [estado |-> "ok"]
    ELSE IF ~es_propietario THEN PermisoDenegadoError
    ELSE [estado |-> "ok"]

\* Usuario(id=..., rol=...)
UsuariosPosibles == [id : {1, 2, 3}, rol : {"admin", "user"}]

\* Medidor(id=1, propietario_id=2)
MedidorDePrueba == [id |-> 1, propietario_id |-> 2]

\* created_at of the reading: none, minute 0, minute 60
CreacionesPosibles == {None, 0, Horas(1)}

\* datetime.now(): 24 h, 48 h, 48 h and a minute, 49 h and 50 h after
\* minute 0
AhorasPosibles == {Horas(24), Horas(48), Horas(48) + 1, Horas(49), Horas(50)}

\* Lectura(id=1, autor_user_id=..., created_at=...)
LecturasDePermiso ==
    { [LecturaCreada(1, 0, 20000, TarifasA) EXCEPT
           !.autor_user_id = autor, !.created_at = creada] :
        autor \in {2, 3}, creada \in CreacionesPosibles }

InitPermisos ==
    /\ lecturas = <<>>
    /\ tarifas = TarifasA
    /\ previas = <<>>
    /\ desde_indice = 0
    /\ modificadas = <<>>
    /\ fase = "inicio"
    /\ reloj \in AhorasPosibles
    /\ \E usuario \in UsuariosPosibles, es_propietario \in BOOLEAN :
          \/ \E lectura \in LecturasDePermiso :
                llamada = [fn |-> "verificar_permiso_edicion_lectura",
                           usuario |-> usuario, lectura |-> lectura,
                           medidor |-> MedidorDePrueba,
                           es_propietario |-> es_propietario]
          \/ llamada = [fn |-> "verificar_permiso_eliminacion_lectura",
                        usuario |-> usuario, medidor |-> MedidorDePrueba,
                        es_propietario |-> es_propietario]
    /\ retorno = NingunaLlamada
    /\ SinAplicacion

\* verificar_permiso_edicion_lectura(usuario, lectura, medidor, es_propietario)
LlamarPermisoEdicion ==
    /\ llamada.fn = "verificar_permiso_edicion_lectura"
    /\ Retornar(verificar_permiso_edicion_lectura(llamada.usuario,
                    llamada.lectura, llamada.medidor, llamada.es_propietario,
                    reloj))

\* verificar_permiso_eliminacion_lectura(usuario, medidor, es_propietario)
LlamarPermisoEliminacion ==
    /\ llamada.fn = "verificar_permiso_eliminacion_lectura"
    /\ Retornar(verificar_permiso_eliminacion_lectura(llamada.usuario,
                    llamada.medidor, llamada.es_propietario))

NextPermisos ==
    \/ LlamarPermisoEdicion
    \/ LlamarPermisoEliminacion

SpecPermisos == InitPermisos /\ [][NextPermisos]_vars

----------------------------------------------------------------------------
(* Claims about the permissions, checked under SpecPermisos *)

\* C18: verificar_permiso_edicion_lectura succeeds for every admin and for
\* every user with es_propietario true, whatever the reading's author and
\* however long ago the reading was created.
C18_AdminYPropietario ==
    Retornada("verificar_permiso_edicion_lectura") =>
        ((llamada.usuario.rol = "admin" \/ llamada.es_propietario) =>
            retorno.estado = "ok")

\* C18 witness: an owner who is neither admin nor the author edits a
\* reading created 50 hours ago
C18_Witness ==
    /\ Retornada("verificar_permiso_edicion_lectura")
    /\ llamada.usuario.rol = "user"
    /\ llamada.es_propietario
    /\ llamada.lectura.autor_user_id # llamada.usuario.id
    /\ llamada.lectura.created_at # None
    /\ reloj - llamada.lectura.created_at = Horas(50)
    /\ retorno.estado = "ok"

\* a linked user: neither admin nor owner, on a reading with a creation
\* timestamp
EdicionDeVinculado ==
    /\ Retornada("verificar_permiso_edicion_lectura")
    /\ llamada.usuario.rol # "admin"
    /\ ~llamada.es_propietario
    /\ llamada.lectura.created_at # None

\* C19: for a non-admin, non-owner user and a reading with a creation
\* timestamp, the edit fails with PermisoDenegadoError when the user is not
\* the author, whatever the reading's age; when the user is the author it
\* succeeds if and only if now - created_at <= 48 hours and otherwise fails
\* with TiempoEdicionExpiradoError.
C19_Vinculado ==
    EdicionDeVinculado =>
        LET edad == reloj - llamada.lectura.created_at IN
        IF llamada.lectura.autor_user_id # llamada.usuario.id
        THEN retorno.estado = "PermisoDenegadoError"
        ELSE /\ retorno.estado = "ok" <=> edad <= Horas(48)
             /\ retorno.estado # "ok" =>
                    retorno.estado = "TiempoEdicionExpiradoError"

\* C19 witness: the author edits exactly 48 hours after creation and is
\* let through
C19_Witness ==
    /\ EdicionDeVinculado
    /\ llamada.lectura.autor_user_id = llamada.usuario.id
    /\ reloj - llamada.lectura.created_at = Horas(48)
    /\ retorno.estado = "ok"

----------------------------------------------------------------------------
(* Authentication (RF-05) *)

\* hash_password(password): a bcrypt hash, known only by the password it
\* was made from
hash_password(password) == [bcrypt_de |-> password]

\* bcrypt.checkpw(password, password_hash)
verificar_password(password, password_hash) ==
    password_hash.bcrypt_de = password

CredencialesInvalidasError == [estado |-> "CredencialesInvalidasError"]

UsuarioInactivoError == [estado |-> "UsuarioInactivoError"]

\* autenticar_usuario that looks at the status before the password
autenticar_usuario_estado_primero(usuario, password) ==
    IF usuario = UsuarioNone THEN CredencialesInvalidasError
    ELSE IF usuario.estado = "INACTIVO" THEN UsuarioInactivoError
    ELSE IF ~verificar_password(password, usuario.password_hash)
         THEN CredencialesInvalidasError
         ELSE [estado |-> "ok", usuario |-> usuario]

\* returns the user or raises
autenticar_usuario(usuario, password) ==
    IF usuario = UsuarioNone THEN CredencialesInvalidasError
    ELSE IF ~verificar_password(password, usuario.password_hash)
         THEN CredencialesInvalidasError
         ELSE IF usuario.estado = "INACTIVO" THEN UsuarioInactivoError
         ELSE [estado |-> "ok", usuario |-> usuario]

\* passwords typed or stored
PasswordsPosibles == {"password123", "incorrecta", "admin123"}

\* Usuario(id, password_hash, rol, estado) as read from the database, or
\* none
UsuariosAlmacenados ==
    {UsuarioNone} \cup
    { [id |-> id, password_hash |-> hash_password(p), rol |-> rol,
       estado |-> estado] :
        id \in {1, 2, 3}, p \in PasswordsPosibles, rol \in {"admin", "user"},
        estado \in {"ACTIVO", "INACTIVO"} }

InitAutenticacion ==
    /\ lecturas = <<>>
    /\ tarifas = TarifasA
    /\ previas = <<>>
    /\ desde_indice = 0
    /\ modificadas = <<>>
    /\ fase = "inicio"
    /\ reloj = 1
    /\ \E usuario \in UsuariosAlmacenados, password \in PasswordsPosibles :
          llamada = [fn |-> "autenticar_usuario", usuario |-> usuario,
                     password |-> password]
    /\ retorno = NingunaLlamada
    /\ SinAplicacion

\* autenticar_usuario(usuario, password)
LlamarAutenticar ==
    /\ llamada.fn = "autenticar_usuario"
    /\ Retornar(autenticar_usuario(llamada.usuario, llamada.password))

NextAutenticacion == LlamarAutenticar

SpecAutenticacion == InitAutenticacion /\ [][NextAutenticacion]_vars

\* C21: autenticar_usuario returns the user only when the user exists, the
\* password verifies against the stored hash and the status is active; it
\* fails with CredencialesInvalidasError when the user is absent or the
\* password does not verify (also for an inactive user), and with
\* UsuarioInactivoError for an inactive user with a correct password.
C21_Autenticacion ==
    Retornada("autenticar_usuario") =>
        LET u == llamada.usuario
            existe == u # UsuarioNone
            verifica == existe /\ u.password_hash = [bcrypt_de |-> llamada.password]
        IN  /\ retorno.estado = "ok" <=>
                 (existe /\ verifica /\ u.estado = "ACTIVO")
            /\ retorno.estado = "ok" => retorno.usuario = u
            /\ (~existe \/ ~verifica) =>
                 retorno.estado = "CredencialesInvalidasError"
            /\ (existe /\ verifica /\ u.estado = "INACTIVO") =>
                 retorno.estado = "UsuarioInactivoError"

\* C21 witness: an inactive user with a wrong password is told the
\* credentials are invalid
C21_Witness ==
    /\ Retornada("autenticar_usuario")
    /\ llamada.usuario # UsuarioNone
    /\ llamada.usuario.estado = "INACTIVO"
    /\ llamada.usuario.password_hash # [bcrypt_de |-> llamada.password]
    /\ retorno.estado = "CredencialesInvalidasError"

----------------------------------------------------------------------------
(* Consumptions computed by the rollover functions and the cascade *)

\* two stored readings: the first reads a, the second reads c and was
\* computed when the first read p0
ParesDeLecturas ==
    { <<LecturaCreada(1, 0, a, TarifasA), LecturaCreada(2, p0, c, TarifasA)>> :
        a \in ValoresMedidor, p0 \in ValoresMedidor, c \in ValoresMedidor }

InitConsumo ==
    /\ lecturas = <<>>
    /\ tarifas = TarifasA
    /\ previas = <<>>
    /\ desde_indice = 0
    /\ modificadas = <<>>
    /\ fase = "inicio"
    /\ reloj = 1
    /\ \/ \E anterior \in AnterioresPosibles, actual \in ActualesPosibles,
             maximo \in MaximosPosibles, umbral \in UmbralesPosibles :
             llamada = [fn |-> "detectar_rollover",
                        lectura_anterior |-> anterior,
                        lectura_actual |-> actual, max_medidor |-> maximo,
                        umbral_rollover |-> umbral]
       \/ \E anterior \in AnterioresPosibles, actual \in ActualesPosibles,
             confirmar \in BOOLEAN :
             llamada = [fn |-> "calcular_consumo",
                        lectura_anterior |-> anterior,
                        lectura_actual |-> actual,
                        confirmar_rollover |-> confirmar]
       \/ \E ls \in ParesDeLecturas :
             llamada = [fn |-> "recalcular_lecturas_afectadas",
                        lecturas |-> ls, desde_indice |-> 1]
    /\ retorno = NingunaLlamada
    /\ SinAplicacion

\* detectar_rollover(lectura_anterior, lectura_actual, max_medidor, umbral)
RetornarDetectarRollover ==
    /\ llamada.fn = "detectar_rollover"
    /\ Retornar(detectar_rollover(llamada.lectura_anterior,
                    llamada.lectura_actual, llamada.max_medidor,
                    llamada.umbral_rollover))

\* calcular_consumo(lectura_anterior, lectura_actual, confirmar_rollover)
RetornarCalcularConsumo ==
    /\ llamada.fn = "calcular_consumo"
    /\ Retornar(calcular_consumo(llamada.lectura_anterior,
                    llamada.lectura_actual, llamada.confirmar_rollover))

\* recalcular_lecturas_afectadas(lecturas, tarifas, 1): the list as the call
\* leaves it and the list it returns
RetornarRecalcular ==
    /\ llamada.fn = "recalcular_lecturas_afectadas"
    /\ Retornar(recalcular_lecturas_afectadas(llamada.lecturas, tarifas,
                    llamada.desde_indice, reloj))

NextConsumo ==
    \/ RetornarDetectarRollover
    \/ RetornarCalcularConsumo
    \/ RetornarRecalcular

SpecConsumo == InitConsumo /\ [][NextConsumo]_vars

\* C29: for all inputs with 0 <= previous <= meter_max and current >= 0 the
\* consumption returned by detectar_rollover is non-negative, and so is any
\* consumption returned (or carried by RolloverNoConfirmadoError) by
\* calcular_consumo and any consumption recalcular_lecturas_afectadas leaves
\* in a reading, for readings within the meter's range.
C29_ConsumoNoNegativo ==
    /\ Retornada("detectar_rollover") =>
          ((/\ 0 <= llamada.lectura_anterior
            /\ llamada.lectura_anterior <= llamada.max_medidor
            /\ llamada.lectura_actual >= 0) => retorno.consumo >= 0)
    /\ Retornada("calcular_consumo") =>
          /\ retorno.estado = "ok" => retorno.consumo >= 0
          /\ retorno.estado = "RolloverNoConfirmadoError" =>
                retorno.consumo_calculado >= 0
    /\ Retornada("recalcular_lecturas_afectadas") =>
          \A i \in 1..Len(retorno.lecturas) :
              retorno.lecturas[i].consumo_kwh >= 0

\* C29 witness: a rollover from within the meter's range, from 99500 kWh
\* to 2.5 kWh, yields the positive consumption (max - previous) + current
C29_Witness ==
    /\ Retornada("detectar_rollover")
    /\ llamada.lectura_anterior = 19900000
    /\ llamada.lectura_anterior <= llamada.max_medidor
    /\ llamada.lectura_actual = 500
    /\ retorno.es_rollover
    /\ retorno.consumo = 100480

\* C30: the verdict of validar_tramos_tarifas does not depend on the order
\* of the input tier list: for every tier list and every permutation of it,
\* both are accepted or both are rejected.
C30_Original ==
    (Retornada("validar_tramos_tarifas") /\ Len(llamada.tarifas) <= MaxTramos)
        => \A o \in Ordenaciones(llamada.tarifas) :
               validar_tramos_tarifas(o).estado = retorno.estado
----------------------------------------------------------------------------
(* Login lockout (RF-09): AuthViewModel.login *)

MAX_LOGIN_ATTEMPTS == 3

LOCKOUT_MINUTES == 1

\* timedelta(minutes=m), in seconds
Minutos(m) == m * 60

\* d.get(k, default)
Get(d, k, default) == IF k \in DOMAIN d THEN d[k] ELSE default

\* d[k] = v
Poner(d, k, v) == [x \in DOMAIN d \cup {k} |-> IF x = k THEN v ELSE d[x]]

\* if k in d: del d[k]
Quitar(d, k) == [x \in DOMAIN d \ {k} |-> d[x]]

\* what is typed into the username field
UsernamesTecleados == {"ana", " Ana ", "luis", "nadie"}

\* username.strip().lower()
Normalizar(username) == IF username = " Ana " THEN "ana" ELSE username

\* what is typed into the password field
PasswordsTecleados == {"password123", "incorrecta"}

\* table usuarios: an active user and a deactivated one
UsuariosDeLogin ==
    { [id |-> 1, username |-> "ana",
       password_hash |-> hash_password("password123"), rol |-> "user",
       estado |-> "ACTIVO", debe_cambiar_pass |-> FALSE],
      [id |-> 2, username |-> "luis",
       password_hash |-> hash_password("password123"), rol |-> "user",
       estado |-> "INACTIVO", debe_cambiar_pass |-> FALSE] }

\* UsuarioRepository.get_by_username(username): the row or None
get_by_username(username) ==
    IF \E u \in UsuariosDeLogin : u.username = username
    THEN CHOOSE u \in UsuariosDeLogin : u.username = username
    ELSE UsuarioNone

\* _resetear_intentos(username), on the two dictionaries
ResetearIntentos(intentos, bloqs, username) ==
    [intentos_fallidos |-> Quitar(intentos, username),
     bloqueos |-> Quitar(bloqs, username)]

\* _esta_bloqueado that never finds a lock
EstaBloqueado_nunca(intentos, bloqs, username, ahora) ==
    [bloqueado |-> FALSE, intentos_fallidos |-> intentos, bloqueos |-> bloqs]

\* _esta_bloqueado(username): the answer and the dictionaries as it leaves
\* them (an expired lock is deleted and the attempts are reset)
EstaBloqueado(intentos, bloqs, username, ahora) ==
    IF username \notin DOMAIN bloqs
    THEN [bloqueado |-> FALSE, intentos_fallidos |-> intentos,
          bloqueos |-> bloqs]
    ELSE IF ahora > bloqs[username]
         THEN [bloqueado |-> FALSE,
               intentos_fallidos |->
                   ResetearIntentos(intentos, Quitar(bloqs, username),
                                    username).intentos_fallidos,
               bloqueos |->
                   ResetearIntentos(intentos, Quitar(bloqs, username),
                                    username).bloqueos]
         ELSE [bloqueado |-> TRUE, intentos_fallidos |-> intentos,
               bloqueos |-> bloqs]

\* no invalid-credential attempt on record
SinFallos == [fallos |-> 0, tercero |-> None]

\* the credentials typed do not match a stored user
CredencialesInvalidas(username, password) ==
    LET usuario == get_by_username(username)
    IN  \/ usuario = UsuarioNone
        \/ ~verificar_password(password, usuario.password_hash)

\* the record of invalid-credential attempts in a row for a username, kept
\* from what is typed and what login answers: it starts again after a
\* successful login and once the lockout time has passed since the third
Registro(h, username, password, exito, ahora) ==
    LET vencido == /\ h.fallos >= MAX_LOGIN_ATTEMPTS
                   /\ ahora > h.tercero + Minutos(LOCKOUT_MINUTES)
        h0 == IF vencido THEN SinFallos ELSE h
    IN  IF h0.fallos >= MAX_LOGIN_ATTEMPTS THEN h0
        ELSE IF exito THEN SinFallos
        ELSE IF CredencialesInvalidas(username, password)
             THEN [fallos |-> h0.fallos + 1,
                   tercero |-> IF h0.fallos + 1 = MAX_LOGIN_ATTEMPTS
                               THEN ahora ELSE None]
             ELSE h0

InitLogin ==
    /\ lecturas = <<>>
    /\ tarifas = TarifasA
    /\ previas = <<>>
    /\ desde_indice = 0
    /\ modificadas = <<>>
    /\ fase = "inicio"
    /\ reloj = 0
    /\ llamada = NingunaLlamada
    /\ retorno = NingunaLlamada
    /\ SinAplicacion

\* AuthViewModel.login(username, password)
login(username, password) ==
    LET nombre == Normalizar(username)
        b == EstaBloqueado(intentos_fallidos, bloqueos, nombre, reloj)
        usuario_auth == autenticar_usuario(get_by_username(nombre), password)
        intentos == Get(b.intentos_fallidos, nombre, 0) + 1
        restantes == MAX_LOGIN_ATTEMPTS - intentos
    IN  /\ llamada' = [fn |-> "login", username |-> username,
                       password |-> password, ahora |-> reloj]
        /\ IF b.bloqueado
           THEN /\ retorno' = [exito |-> FALSE,
                               mensaje |-> "Usuario bloqueado. Espera"]
                /\ intentos_fallidos' = b.intentos_fallidos
                /\ bloqueos' = b.bloqueos
                /\ UNCHANGED usuario_actual
           ELSE IF usuario_auth.estado = "ok"
           THEN /\ intentos_fallidos' =
                       ResetearIntentos(b.intentos_fallidos, b.bloqueos,
                                        nombre).intentos_fallidos
                /\ bloqueos' =
                       ResetearIntentos(b.intentos_fallidos, b.bloqueos,
                                        nombre).bloqueos
                /\ usuario_actual' = usuario_auth.usuario
                /\ retorno' = [exito |-> TRUE,
                               mensaje |->
                                   IF usuario_auth.usuario.debe_cambiar_pass
                                   THEN "CAMBIAR_PASSWORD"
                                   ELSE "Login exitoso"]
           ELSE IF usuario_auth.estado = "CredencialesInvalidasError"
           THEN /\ intentos_fallidos' =
                       Poner(b.intentos_fallidos, nombre, intentos)
                /\ bloqueos' =
                       IF restantes <= 0
                       THEN Poner(b.bloqueos, nombre,
                                  reloj + Minutos(LOCKOUT_MINUTES))
                       ELSE b.bloqueos
                /\ retorno' = [exito |-> FALSE,
                               mensaje |-> IF restantes <= 0
                                           THEN "Usuario bloqueado por"
                                           ELSE "Credenciales invalidas"]
                /\ UNCHANGED usuario_actual
           ELSE /\ intentos_fallidos' = b.intentos_fallidos
                /\ bloqueos' = b.bloqueos
                /\ retorno' = [exito |-> FALSE,
                               mensaje |-> "Usuario desactivado"]
                /\ UNCHANGED usuario_actual
        /\ fallos_seguidos' =
               Poner(fallos_seguidos, nombre,
                     Registro(Get(fallos_seguidos, nombre, SinFallos),
                              nombre, password, retorno'.exito, reloj))
        /\ UNCHANGED <<lecturas, tarifas, previas, desde_indice, modificadas,
                       fase, reloj, en_curso>>

\* AuthViewModel.logout()
logout ==
    /\ usuario_actual' = UsuarioNone
    /\ llamada' = [fn |-> "logout"]
    /\ retorno' = [exito |-> TRUE, mensaje |-> "None"]
    /\ UNCHANGED <<lecturas, tarifas, previas, desde_indice, modificadas,
                   fase, reloj, intentos_fallidos, bloqueos, fallos_seguidos,
                   en_curso>>

\* half a minute passes, up to three and a half minutes
PasarTiempo ==
    /\ reloj < Minutos(3) + 30
    /\ reloj' = reloj + 30
    /\ UNCHANGED <<lecturas, tarifas, previas, desde_indice, modificadas,
                   fase, llamada, retorno>>
    /\ UNCHANGED aplicacion

NextLogin ==
    \/ \E username \in UsernamesTecleados, password \in PasswordsTecleados :
          login(username, password)
    \/ logout
    \/ PasarTiempo

SpecLogin == InitLogin /\ [][NextLogin]_vars

\* the attempt is made after three invalid-credential attempts in a row for
\* the username
TrasTresFallos(username) ==
    Get(fallos_seguidos, Normalizar(username), SinFallos).fallos
        >= MAX_LOGIN_ATTEMPTS

\* time since the third of them
DesdeElTercero(username) ==
    reloj - Get(fallos_seguidos, Normalizar(username), SinFallos).tercero

\* C28: after three login attempts with invalid credentials in a row for a
\* username, every login attempt for it made less than one minute after the
\* third is rejected and leaves the session as it was, whatever the
\* password; an attempt made more than one minute after the third with the
\* correct password of an active user logs in and leaves no failed attempt
\* on record.
C28_Bloqueo ==
    [][\A username \in UsernamesTecleados, password \in PasswordsTecleados :
          (login(username, password) /\ TrasTresFallos(username)) =>
              /\ DesdeElTercero(username) < Minutos(LOCKOUT_MINUTES) =>
                    /\ ~retorno'.exito
                    /\ usuario_actual' = usuario_actual
              /\ ( /\ DesdeElTercero(username) > Minutos(LOCKOUT_MINUTES)
                   /\ ~CredencialesInvalidas(Normalizar(username), password)
                   /\ get_by_username(Normalizar(username)).estado = "ACTIVO" )
                 => /\ retorno'.exito
                    /\ usuario_actual' = get_by_username(Normalizar(username))
                    /\ Get(intentos_fallidos', Normalizar(username), 0) = 0
                    /\ Normalizar(username) \notin DOMAIN bloqueos']_vars

\* the correct password of the active user has just been rejected, half a
\* minute after the third invalid attempt
C28_Witness ==
    /\ llamada.fn = "login"
    /\ Normalizar(llamada.username) = "ana"
    /\ llamada.password = "password123"
    /\ ~retorno.exito
    /\ reloj = llamada.ahora
    /\ Get(fallos_seguidos, "ana", SinFallos).fallos = MAX_LOGIN_ATTEMPTS
    /\ llamada.ahora - Get(fallos_seguidos, "ana", SinFallos).tercero = 30
    /\ usuario_actual = UsuarioNone

----------------------------------------------------------------------------
(* Readings: LecturaRepository on table lecturas *)

\* the rows of a table
Filas_de(tabla) == { tabla[i] : i \in DOMAIN tabla }

\* existe_periodo(medidor_id, fecha_inicio, fecha_fin)
existe_periodo(tabla, medidor_id, fecha_inicio, fecha_fin) ==
    \E l \in Filas_de(tabla) : /\ l.medidor_id = medidor_id
                               /\ l.fecha_inicio = fecha_inicio
                               /\ l.fecha_fin = fecha_fin

\* get_by_id(lectura_id): the row, or LecturaNone for LecturaNoEncontradaError
get_by_id(tabla, lectura_id) ==
    IF \E l \in Filas_de(tabla) : l.id = lectura_id
    THEN CHOOSE l \in Filas_de(tabla) : l.id = lectura_id
    ELSE LecturaNone

\* get_lectura_anterior_cronologica(medidor_id, fecha_fin): WHERE fecha_fin
\* < ? ORDER BY fecha_fin DESC LIMIT 1.  The answers the query can give:
\* among rows that share the latest earlier period end SQLite returns the
\* oldest or the newest, depending on the index it walks
get_lectura_anterior_cronologica(tabla, medidor_id, fecha_fin) ==
    LET anteriores == { l \in Filas_de(tabla) : /\ l.medidor_id = medidor_id
                                                /\ l.fecha_fin < fecha_fin }
    IN  IF anteriores = {} THEN {LecturaNone}
        ELSE { l \in anteriores :
                 \A o \in anteriores : o.fecha_fin <= l.fecha_fin }

\* get_lectura_posterior_cronologica(medidor_id, fecha_fin): WHERE fecha_fin
\* > ? ORDER BY fecha_fin ASC LIMIT 1, with the same freedom
get_lectura_posterior_cronologica(tabla, medidor_id, fecha_fin) ==
    LET posteriores == { l \in Filas_de(tabla) : /\ l.medidor_id = medidor_id
                                                 /\ l.fecha_fin > fecha_fin }
    IN  IF posteriores = {} THEN {LecturaNone}
        ELSE { l \in posteriores :
                 \A o \in posteriores : l.fecha_fin <= o.fecha_fin }

\* get_lecturas_desde(medidor_id, fecha_desde): WHERE fecha_fin >= ? ORDER
\* BY fecha_fin.  Rows that share a period end come in rowid order, both
\* when SQLite walks idx_lecturas_fecha and when it sorts the rows found
\* through idx_lecturas_medidor
get_lecturas_desde(tabla, medidor_id, fecha_desde) ==
    LET desde == { l \in Filas_de(tabla) : /\ l.medidor_id = medidor_id
                                           /\ l.fecha_fin >= fecha_desde }
        n == Cardinality(desde)
    IN  CHOOSE ls \in [1..n -> desde] :
            \A i, j \in 1..n :
                i < j => \/ ls[i].fecha_fin < ls[j].fecha_fin
                         \/ /\ ls[i].fecha_fin = ls[j].fecha_fin
                            /\ ls[i].id < ls[j].id

\* cursor.lastrowid of an AUTOINCREMENT key
SiguienteId(tabla) ==
    IF tabla = <<>> THEN 1
    ELSE 1 + (CHOOSE m \in { l.id : l \in Filas_de(tabla) } :
                 \A l \in Filas_de(tabla) : l.id <= m)

\* create without the UNIQUE(medidor_id, fecha_inicio, fecha_fin) constraint
create_sin_unique(tabla, lectura, ahora) ==
    [estado |-> "ok",
     tabla |-> Append(tabla, [lectura EXCEPT !.id = SiguienteId(tabla),
                                             !.created_at = ahora,
                                             !.updated_at = ahora]),
     lectura |-> [lectura EXCEPT !.id = SiguienteId(tabla)]]

\* create(lectura): INSERT and commit; sqlite3.IntegrityError on the UNIQUE
\* constraint becomes PeriodoDuplicadoError
create(tabla, lectura, ahora) ==
    IF existe_periodo(tabla, lectura.medidor_id, lectura.fecha_inicio,
                      lectura.fecha_fin)
    THEN [estado |-> "PeriodoDuplicadoError", tabla |-> tabla,
          lectura |-> LecturaNone]
    ELSE [estado |-> "ok",
          tabla |-> Append(tabla, [lectura EXCEPT !.id = SiguienteId(tabla),
                                                  !.created_at = ahora,
                                                  !.updated_at = ahora]),
          lectura |-> [lectura EXCEPT !.id = SiguienteId(tabla)]]

\* update(lectura): UPDATE ... WHERE id = ?, the period is not written
update(tabla, lectura, ahora) ==
    [i \in DOMAIN tabla |->
        IF tabla[i].id = lectura.id
        THEN [tabla[i] EXCEPT !.lectura_anterior = lectura.lectura_anterior,
                              !.lectura_actual = lectura.lectura_actual,
                              !.consumo_kwh = lectura.consumo_kwh,
                              !.importe_total = lectura.importe_total,
                              !.es_rollover = lectura.es_rollover,
                              !.updated_at = ahora]
        ELSE tabla[i]]

----------------------------------------------------------------------------
(* Readings: LecturaViewModel *)

\* date.today(), as a day number
Hoy == 3

\* precalcular_lectura that never asks for confirmation
precalcular_lectura_sin_confirmacion(lectura_previa, lectura_actual, fecha_fin, confirmar_rollover, ts) ==
    IF fecha_fin > Hoy
    THEN [exito |-> FALSE, mensaje |-> "No se permiten fechas futuras."]
    ELSE
    LET lectura_anterior == IF lectura_previa = LecturaNone THEN 0
                            ELSE lectura_previa.lectura_actual
        resultado_rollover == detectar_rollover(lectura_anterior,
                                  lectura_actual, MAX_MEDIDOR, UMBRAL_ROLLOVER)
    IN  [exito |-> TRUE, mensaje |-> "Calculo exitoso",
         datos |-> [lectura_anterior |-> lectura_anterior,
                    consumo |-> resultado_rollover.consumo,
                    importe |-> calcular_importe(
                                    resultado_rollover.consumo, ts),
                    es_rollover |-> resultado_rollover.es_rollover,
                    requiere_confirmacion |-> FALSE]]

\* precalcular_lectura, given the previous reading the repository returned
precalcular_lectura(lectura_previa, lectura_actual, fecha_fin, confirmar_rollover, ts) ==
    IF fecha_fin > Hoy
    THEN [exito |-> FALSE, mensaje |-> "No se permiten fechas futuras."]
    ELSE
    LET lectura_anterior == IF lectura_previa = LecturaNone THEN 0
                            ELSE lectura_previa.lectura_actual
        resultado_rollover == detectar_rollover(lectura_anterior,
                                  lectura_actual, MAX_MEDIDOR, UMBRAL_ROLLOVER)
    IN  IF resultado_rollover.requiere_confirmacion /\ ~confirmar_rollover
        THEN [exito |-> FALSE, mensaje |-> "requiere confirmacion"]
        ELSE IF /\ ~resultado_rollover.es_rollover
                /\ lectura_actual < lectura_anterior
                /\ ~confirmar_rollover
        THEN [exito |-> FALSE, mensaje |-> "requiere confirmacion"]
        ELSE [exito |-> TRUE, mensaje |-> "Calculo exitoso",
              datos |-> [lectura_anterior |-> lectura_anterior,
                         consumo |-> resultado_rollover.consumo,
                         importe |-> calcular_importe(
                                         resultado_rollover.consumo, ts),
                         es_rollover |-> resultado_rollover.es_rollover,
                         requiere_confirmacion |-> FALSE]]

\* for lectura in lecturas_modificadas: self._lectura_repo.update(lectura)
RECURSIVE GuardarCambios(_, _, _, _, _)
GuardarCambios(tabla, ls, indices, k, ahora) ==
    IF k > Len(indices) THEN tabla
    ELSE GuardarCambios(update(tabla, At(ls, indices[k]), ahora), ls, indices,
                        k + 1, ahora)

\* _aplicar_efecto_domino after its get_lecturas_desde returned cargadas
RecalcularYGuardar(tabla, cargadas, ts, ahora) ==
    IF Len(cargadas) <= 1 THEN tabla
    ELSE LET r == recalcular_lecturas_afectadas(cargadas, ts, 1, ahora)
         IN  GuardarCambios(tabla, r.lecturas, r.modificadas, 1, ahora)

\* _aplicar_efecto_domino that recalculates and saves nothing
_aplicar_efecto_domino_sin_guardar(tabla, medidor_id, desde_fecha, ts, ahora) ==
    tabla

\* _aplicar_efecto_domino(medidor_id, desde_fecha)
_aplicar_efecto_domino(tabla, medidor_id, desde_fecha, ts, ahora) ==
    RecalcularYGuardar(tabla, get_lecturas_desde(tabla, medidor_id,
                                                 desde_fecha), ts, ahora)

\* a handler answers failure and leaves the table alone
Fallar(mensaje) ==
    /\ retorno' = [exito |-> FALSE, mensaje |-> mensaje]
    /\ lecturas' = lecturas

\* Lectura(...) as crear_lectura builds it
LecturaNueva(usuario, medidor_id, fecha_inicio, fecha_fin, lectura_actual, datos) ==
    [id |-> None, medidor_id |-> medidor_id,
     autor_user_id |-> usuario.id,
     fecha_inicio |-> fecha_inicio, fecha_fin |-> fecha_fin,
     lectura_anterior |-> datos.lectura_anterior,
     lectura_actual |-> lectura_actual,
     consumo_kwh |-> datos.consumo,
     importe_total |-> datos.importe,
     es_rollover |-> datos.es_rollover,
     created_at |-> 0, updated_at |-> 0]

\* what crear_lectura answers when it fails
Fallo(mensaje, tabla) ==
    [exito |-> FALSE, mensaje |-> mensaje, lectura |-> LecturaNone,
     tabla |-> tabla]

\* crear_lectura up to and including create, given the previous reading the
\* repository returned: its answer and the table as create leaves it
CrearSinDomino(tabla, usuario, lectura_previa, medidor_id, fecha_inicio, fecha_fin, lectura_actual, confirmar_rollover, ts, ahora) ==
    IF usuario = UsuarioNone THEN Fallo("No hay sesion activa.", tabla)
    ELSE IF fecha_fin > Hoy
    THEN Fallo("No se permiten fechas futuras.", tabla)
    ELSE IF fecha_inicio > fecha_fin
    THEN Fallo("La fecha de inicio no puede ser posterior", tabla)
    ELSE IF existe_periodo(tabla, medidor_id, fecha_inicio, fecha_fin)
    THEN Fallo("Ya existe una lectura para este periodo.", tabla)
    ELSE
    LET pre == precalcular_lectura(lectura_previa, lectura_actual, fecha_fin,
                                   confirmar_rollover, ts)
    IN  IF ~pre.exito THEN Fallo(pre.mensaje, tabla)
        ELSE IF pre.datos.requiere_confirmacion
        THEN Fallo("Requiere confirmacion", tabla)
        ELSE
        LET creada == create(tabla,
                             LecturaNueva(usuario, medidor_id, fecha_inicio,
                                 fecha_fin, lectura_actual, pre.datos),
                             ahora)
        IN  IF creada.estado = "PeriodoDuplicadoError"
            THEN Fallo("Ya existe una lectura para este periodo.", tabla)
            ELSE [exito |-> TRUE, mensaje |-> "Lectura registrada",
                  lectura |-> creada.lectura, tabla |-> creada.tabla]

\* crear_lectura that inserts without looking for the period
crear_lectura_sin_unicidad(medidor_id, fecha_inicio, fecha_fin, lectura_actual, confirmar_rollover) ==
    /\ llamada' = [fn |-> "crear_lectura", medidor_id |-> medidor_id,
                   fecha_inicio |-> fecha_inicio, fecha_fin |-> fecha_fin,
                   lectura_actual |-> lectura_actual,
                   confirmar_rollover |-> confirmar_rollover]
    /\ previas' = lecturas
    /\ fase' = "retornada"
    /\ IF usuario_actual = UsuarioNone THEN Fallar("No hay sesion activa.")
       ELSE IF fecha_fin > Hoy THEN Fallar("No se permiten fechas futuras.")
       ELSE IF fecha_inicio > fecha_fin
       THEN Fallar("La fecha de inicio no puede ser posterior")
       ELSE /\ lecturas' =
                  create_sin_unique(lecturas,
                      LecturaNueva(usuario_actual, medidor_id, fecha_inicio,
                          fecha_fin, lectura_actual,
                          [lectura_anterior |-> 0, consumo |-> lectura_actual,
                           importe |-> 0, es_rollover |-> FALSE]),
                      reloj).tabla
            /\ retorno' = [exito |-> TRUE, mensaje |-> "Lectura registrada",
                           lectura |-> LecturaNone]
    /\ UNCHANGED <<tarifas, desde_indice, modificadas, reloj>>
    /\ UNCHANGED aplicacion

\* LecturaViewModel.crear_lectura(medidor_id, fecha_inicio, fecha_fin,
\* lectura_actual, confirmar_rollover)
crear_lectura(medidor_id, fecha_inicio, fecha_fin, lectura_actual, confirmar_rollover) ==
    /\ llamada' = [fn |-> "crear_lectura", medidor_id |-> medidor_id,
                   fecha_inicio |-> fecha_inicio, fecha_fin |-> fecha_fin,
                   lectura_actual |-> lectura_actual,
                   confirmar_rollover |-> confirmar_rollover]
    /\ previas' = lecturas
    /\ fase' = "retornada"
    /\ \E lectura_previa \in
              get_lectura_anterior_cronologica(lecturas, medidor_id, fecha_fin) :
          LET r == CrearSinDomino(lecturas, usuario_actual, lectura_previa,
                       medidor_id, fecha_inicio, fecha_fin, lectura_actual,
                       confirmar_rollover, tarifas, reloj)
          IN  /\ retorno' = [exito |-> r.exito, mensaje |-> r.mensaje,
                             lectura |-> r.lectura]
              /\ lecturas' = IF r.exito
                             THEN _aplicar_efecto_domino(r.tabla, medidor_id,
                                      fecha_fin, tarifas, reloj)
                             ELSE lecturas
    /\ UNCHANGED <<tarifas, desde_indice, modificadas, reloj>>
    /\ UNCHANGED aplicacion

\* f(**kwargs) on a function whose parameters have no default: TypeError
\* unless every parameter, and nothing else, is named
LlamarPorNombre(parametros, nombres) ==
    IF nombres = parametros THEN [estado |-> "ok"]
    ELSE [estado |-> "TypeError"]

\* puede, mensaje = verificar_permiso_...(usuario=..., lectura=...,
\* es_propietario_medidor=...): the keywords are not the parameters of the
\* function; were they, it would return None, which unpacks into nothing
PermisoEnVista(parametros) ==
    IF LlamarPorNombre(parametros,
           {"usuario", "lectura", "es_propietario_medidor"}).estado = "ok"
    THEN [exito |-> FALSE, estado |-> "TypeError",
          mensaje |-> "cannot unpack non-iterable NoneType object"]
    ELSE [exito |-> FALSE, estado |-> "TypeError",
          mensaje |-> "got an unexpected keyword argument"]

\* LecturaViewModel.actualizar_lectura(lectura_id, lectura_actual,
\* confirmar_rollover): the permission call is outside the try block and
\* every path through it raises
actualizar_lectura(lectura_id, lectura_actual, confirmar_rollover) ==
    /\ llamada' = [fn |-> "actualizar_lectura", lectura_id |-> lectura_id,
                   lectura_actual |-> lectura_actual,
                   confirmar_rollover |-> confirmar_rollover]
    /\ previas' = lecturas
    /\ fase' = "retornada"
    /\ IF usuario_actual = UsuarioNone THEN Fallar("No hay sesion activa.")
       ELSE IF get_by_id(lecturas, lectura_id) = LecturaNone
       THEN Fallar("Lectura no encontrada.")
       ELSE /\ retorno' = PermisoEnVista({"usuario", "lectura", "medidor",
                                          "es_propietario"})
            /\ lecturas' = lecturas
    /\ UNCHANGED <<tarifas, desde_indice, modificadas, reloj>>
    /\ UNCHANGED aplicacion

\* LecturaViewModel.eliminar_lectura(lectura_id): as actualizar_lectura, the
\* permission call raises before anything is deleted
eliminar_lectura(lectura_id) ==
    /\ llamada' = [fn |-> "eliminar_lectura", lectura_id |-> lectura_id]
    /\ previas' = lecturas
    /\ fase' = "retornada"
    /\ IF usuario_actual = UsuarioNone THEN Fallar("No hay sesion activa.")
       ELSE IF get_by_id(lecturas, lectura_id) = LecturaNone
       THEN Fallar("Lectura no encontrada.")
       ELSE /\ retorno' = PermisoEnVista({"usuario", "medidor",
                                          "es_propietario"})
            /\ lecturas' = lecturas
    /\ UNCHANGED <<tarifas, desde_indice, modificadas, reloj>>
    /\ UNCHANGED aplicacion

\* periods typed into the form that are valid today (day 3); two of them
\* end on the same day
PeriodosValidos == {<<0, 1>>, <<1, 2>>, <<2, 2>>, <<2, 3>>}

\* a period that ends before it starts and one that ends in the future
PeriodosInvalidos == {<<3, 2>>, <<3, 4>>}

\* meter values typed: 100 kWh, 100.01 kWh, the meter's maximum
ValoresTecleados == {20000, 20002, MAX_MEDIDOR}

\* the arguments crear_lectura is called with, all on meter 1
LlamadasCrear ==
    (PeriodosValidos \X ValoresTecleados \X BOOLEAN)
        \cup (PeriodosInvalidos \X {20000} \X {FALSE})

\* the user of the session: the owner of meter 1
UsuarioDeSesion == get_by_username("ana")

InitVM ==
    /\ lecturas = <<>>
    /\ tarifas = TarifasA
    /\ previas = <<>>
    /\ desde_indice = 0
    /\ modificadas = <<>>
    /\ fase = "inicio"
    /\ reloj = 1
    /\ llamada = NingunaLlamada
    /\ retorno = NingunaLlamada
    /\ usuario_actual \in {UsuarioNone, UsuarioDeSesion}
    /\ intentos_fallidos = DictVacio
    /\ bloqueos = DictVacio
    /\ fallos_seguidos = DictVacio
    /\ en_curso = NingunaTarea

NextVM ==
    \/ /\ Len(lecturas) < MaxLecturas
       /\ \E c \in LlamadasCrear :
             crear_lectura(1, c[1][1], c[1][2], c[2], c[3])
    \/ \E lectura_id \in 1..(Len(lecturas) + 1) :
          actualizar_lectura(lectura_id, 20002, TRUE)
    \/ \E lectura_id \in 1..(Len(lecturas) + 1) : eliminar_lectura(lectura_id)

SpecVM == InitVM /\ [][NextVM]_vars

----------------------------------------------------------------------------
(* Two callers on one meter: every repository method opens its own         *)
(* connection and commits, so the steps of _aplicar_efecto_domino are       *)
(* separate transactions                                                    *)

\* crear_lectura up to the get_lecturas_desde of its _aplicar_efecto_domino:
\* the reading is created and the affected readings are loaded
CrearYCargar(medidor_id, fecha_inicio, fecha_fin, lectura_actual, confirmar_rollover) ==
    /\ en_curso = NingunaTarea
    /\ llamada' = [fn |-> "crear_lectura", medidor_id |-> medidor_id,
                   fecha_inicio |-> fecha_inicio, fecha_fin |-> fecha_fin,
                   lectura_actual |-> lectura_actual,
                   confirmar_rollover |-> confirmar_rollover]
    /\ previas' = lecturas
    /\ fase' = "cargada"
    /\ \E lectura_previa \in
              get_lectura_anterior_cronologica(lecturas, medidor_id, fecha_fin) :
          LET r == CrearSinDomino(lecturas, usuario_actual, lectura_previa,
                       medidor_id, fecha_inicio, fecha_fin, lectura_actual,
                       confirmar_rollover, tarifas, reloj)
          IN  /\ retorno' = [exito |-> r.exito, mensaje |-> r.mensaje,
                             lectura |-> r.lectura]
              /\ lecturas' = r.tabla
              /\ en_curso' = IF r.exito
                             THEN [medidor_id |-> medidor_id,
                                   cargadas |-> get_lecturas_desde(r.tabla,
                                                    medidor_id, fecha_fin)]
                             ELSE NingunaTarea
    /\ UNCHANGED <<tarifas, desde_indice, modificadas, reloj, usuario_actual,
                   intentos_fallidos, bloqueos, fallos_seguidos>>

\* the rest of that _aplicar_efecto_domino: the loaded readings are
\* recalculated and the modified ones are updated
RecalcularYGuardarCargadas ==
    /\ en_curso # NingunaTarea
    /\ lecturas' = RecalcularYGuardar(lecturas, en_curso.cargadas, tarifas,
                                      reloj)
    /\ en_curso' = NingunaTarea
    /\ fase' = "retornada"
    /\ UNCHANGED <<tarifas, previas, desde_indice, modificadas, reloj,
                   llamada, retorno, usuario_actual, intentos_fallidos,
                   bloqueos, fallos_seguidos>>

\* a whole crear_lectura of another caller, between that load and that save
CrearEntretanto(medidor_id, fecha_inicio, fecha_fin, lectura_actual, confirmar_rollover) ==
    /\ en_curso # NingunaTarea
    /\ crear_lectura(medidor_id, fecha_inicio, fecha_fin, lectura_actual,
                     confirmar_rollover)

\* periods with different ends
PeriodosSucesivos == {<<0, 1>>, <<1, 2>>, <<2, 3>>}

InitDomino ==
    /\ lecturas = <<>>
    /\ tarifas = TarifasA
    /\ previas = <<>>
    /\ desde_indice = 0
    /\ modificadas = <<>>
    /\ fase = "inicio"
    /\ reloj = 1
    /\ llamada = NingunaLlamada
    /\ retorno = NingunaLlamada
    /\ usuario_actual = UsuarioDeSesion
    /\ intentos_fallidos = DictVacio
    /\ bloqueos = DictVacio
    /\ fallos_seguidos = DictVacio
    /\ en_curso = NingunaTarea

NextDomino ==
    \/ /\ Len(lecturas) < MaxLecturas
       /\ \E periodo \in PeriodosSucesivos,
             lectura_actual \in ValoresTecleados :
             CrearYCargar(1, periodo[1], periodo[2], lectura_actual, TRUE)
    \/ RecalcularYGuardarCargadas
    \/ /\ Len(lecturas) < MaxLecturas
       /\ \E periodo \in PeriodosSucesivos,
             lectura_actual \in ValoresTecleados :
             CrearEntretanto(1, periodo[1], periodo[2], lectura_actual, TRUE)

SpecDomino == InitDomino /\ [][NextDomino]_vars

----------------------------------------------------------------------------
(* Claims on LecturaViewModel *)

\* crear_lectura has returned success
CreacionExitosa == Retornada("crear_lectura") /\ retorno.exito

\* the value of the previous reading as precalcular_lectura takes it
ValorDe(lectura_previa) ==
    IF lectura_previa = LecturaNone THEN 0 ELSE lectura_previa.lectura_actual

\* the readings of a meter in chronological order
Cronologicas(tabla, medidor_id) == get_lecturas_desde(tabla, medidor_id, 0)

\* the table had a reading of the meter with a period end after fecha
HabiaPosteriores(medidor_id, fecha) ==
    \E l \in Filas_de(previas) : l.medidor_id = medidor_id /\ l.fecha_fin > fecha

\* every reading but the first carries its predecessor's value
CadenaConsistente(tabla, medidor_id) ==
    LET c == Cronologicas(tabla, medidor_id)
    IN  \A i \in 2..Len(c) : c[i].lectura_anterior = c[i - 1].lectura_actual

\* the same, for the readings with a period end after fecha
EncadenadasTras(tabla, medidor_id, fecha) ==
    LET c == Cronologicas(tabla, medidor_id)
    IN  \A i \in 2..Len(c) :
            c[i].fecha_fin > fecha =>
                c[i].lectura_anterior = c[i - 1].lectura_actual

\* C27: a reading stored by crear_lectura carries es_rollover = true only if
\* the call confirmed the rollover; and when the decrease against the
\* chronologically previous reading requires confirmation and the call gives
\* none, crear_lectura answers failure and the table is as it was.
C27_RolloverConfirmado ==
    Retornada("crear_lectura") =>
        /\ ( /\ retorno.exito
             /\ get_by_id(lecturas, retorno.lectura.id).es_rollover )
           => llamada.confirmar_rollover
        /\ ( /\ ~llamada.confirmar_rollover
             /\ \A previa \in get_lectura_anterior_cronologica(previas,
                                  llamada.medidor_id, llamada.fecha_fin) :
                   detectar_rollover(ValorDe(previa), llamada.lectura_actual,
                       MAX_MEDIDOR, UMBRAL_ROLLOVER).requiere_confirmacion )
           => /\ ~retorno.exito
              /\ lecturas = previas

\* an unconfirmed rollover between two stored readings was refused
C27_Witness ==
    /\ Retornada("crear_lectura")
    /\ usuario_actual # UsuarioNone
    /\ llamada.fecha_inicio <= llamada.fecha_fin
    /\ llamada.fecha_fin <= Hoy
    /\ ~existe_periodo(previas, llamada.medidor_id, llamada.fecha_inicio,
                       llamada.fecha_fin)
    /\ ~llamada.confirmar_rollover
    /\ \E previa \in Filas_de(previas) :
          /\ previa.fecha_fin < llamada.fecha_fin
          /\ detectar_rollover(previa.lectura_actual, llamada.lectura_actual,
                               MAX_MEDIDOR, UMBRAL_ROLLOVER).es_rollover
    /\ HabiaPosteriores(llamada.medidor_id, llamada.fecha_fin)
    /\ ~retorno.exito
    /\ lecturas = previas

\* C26: no two stored readings of a meter have the same period start and
\* end, whatever crear_lectura, actualizar_lectura and eliminar_lectura calls
\* were made; and a crear_lectura for a period that is already stored
\* answers failure and leaves the table as it was.
C26_PeriodoUnico ==
    /\ \A i, j \in DOMAIN lecturas :
          i # j => ~ ( /\ lecturas[i].medidor_id = lecturas[j].medidor_id
                       /\ lecturas[i].fecha_inicio = lecturas[j].fecha_inicio
                       /\ lecturas[i].fecha_fin = lecturas[j].fecha_fin )
    /\ ( /\ Retornada("crear_lectura")
         /\ existe_periodo(previas, llamada.medidor_id, llamada.fecha_inicio,
                           llamada.fecha_fin) )
       => /\ ~retorno.exito
          /\ lecturas = previas

\* with a session open, a second reading for a stored period was refused
C26_Witness ==
    /\ Retornada("crear_lectura")
    /\ usuario_actual # UsuarioNone
    /\ Len(previas) >= 2
    /\ existe_periodo(previas, llamada.medidor_id, llamada.fecha_inicio,
                      llamada.fecha_fin)
    /\ ~retorno.exito
    /\ lecturas = previas

\* C25: crear_lectura stores a reading only if validar_lectura_retroactiva
\* accepts its value against the chronological neighbours it has in the
\* table, so the value stored never exceeds the value of a reading already
\* stored with a later period end.
C25_Original ==
    CreacionExitosa =>
        /\ \E anterior \in get_lectura_anterior_cronologica(previas,
                               llamada.medidor_id, llamada.fecha_fin),
              posterior \in get_lectura_posterior_cronologica(previas,
                                llamada.medidor_id, llamada.fecha_fin) :
              validar_lectura_retroactiva(llamada.lectura_actual,
                  llamada.fecha_fin, anterior, posterior).estado = "ok"
        /\ \A l \in Filas_de(previas) :
              ( /\ l.medidor_id = llamada.medidor_id
                /\ l.fecha_fin > llamada.fecha_fin )
              => llamada.lectura_actual <= l.lectura_actual

C23_Original ==
    ( /\ Retornada("eliminar_lectura")
      /\ usuario_actual # UsuarioNone
      /\ get_by_id(previas, llamada.lectura_id) # LecturaNone
      /\ \E a, b \in Filas_de(previas) :
            /\ a.fecha_fin < get_by_id(previas, llamada.lectura_id).fecha_fin
            /\ b.fecha_fin > get_by_id(previas, llamada.lectura_id).fecha_fin )
    => /\ retorno.exito
       /\ get_by_id(lecturas, llamada.lectura_id) = LecturaNone
       /\ EncadenadasTras(lecturas, 1,
              get_by_id(previas, llamada.lectura_id).fecha_fin)

\* C22: the load, the recalculation and the save of _aplicar_efecto_domino
\* are one transaction, so whatever other callers do on the meter, once no
\* cascade is under way every stored reading carries the value of its
\* chronological predecessor.
C22_Original ==
    en_curso = NingunaTarea => CadenaConsistente(lecturas, 1)

====
